---------------------------- MODULE Spec2Model ----------------------------
(***************************************************************************)
(* A model of schemapatch: the diff engine (internal/diff), the MySQL      *)
(* migration generator (sqlgen) and the sandbox validator                  *)
(* (internal/docker).                                                      *)
(*                                                                         *)
(* Conventions.                                                            *)
(*  - A Go pointer is a sequence: <<>> is nil, <<v>> points at v.          *)
(*  - A Go map is a TLA+ function whose DOMAIN is the set of keys.  Go     *)
(*    iterates a map in an unspecified order; every range  over a map is  *)
(*    modelled by KeySeq with a direction flag the action chooses.         *)
(*  - A text built by fmt.Sprintf is the tuple of its format and its       *)
(*    arguments; the empty text "" is <<>>.                                *)
(*  - Names are strings; where the code looks inside a string (glob        *)
(*    matching, type parsing) Chars spells it out as a sequence of         *)
(*    one-character strings.                                               *)
(***************************************************************************)
EXTENDS Integers, Sequences, FiniteSets, TLC

VARIABLES
    \* ---- pipeline: Compare, then Generate (window.go onCompare/onGenerate)
    source,      \* the source DatabaseSchema (intended state)
    target,      \* the target DatabaseSchema (current state)
    rules,       \* the DiffEngine's IgnoreConfig
    stage,       \* "extracted" | "compared" | "generated" | "assessed"
    schemaDiff,  \* the SchemaDiff held after Compare
    script,      \* the MigrationScript's Statements held after Generate
    scriptWarnings, \* the MigrationScript's Warnings
    assessment,  \* the RiskAssessment of RiskAssessor.Assess: <<>> before the call
    \* ---- the configuration Store and the goroutines of the window that use it
    store,       \* the Store: config record [Projects, ActiveProject] and mu [writer, readers]
    callers,     \* per goroutine: position, held *Project, what it pointed at, local copy
    bareAccess,  \* the accesses to the config record made while not holding mu
    \* ---- one call of MySQLExtractor.ExtractSchema
    catalog,     \* what the database holds: a DatabaseSchema
    failing,     \* the kinds of catalog query that fail when issued
    extraction,  \* <<>> before the call, then <<[schema, charset, params, err]>>
    \* ---- the main window
    mw,          \* its held schemas, diff and script, its buttons, its compare goroutine
    \* ---- one run of Validator.Validate
    pc,          \* position of the run inside Validate
    opts,        \* ValidationOptions: [Cleanup, CompareSchema]
    ctxDone,     \* the caller's context has been cancelled
    cancelledAt, \* number of statements attempted when the context was cancelled, -1 if never
    result,      \* the ValidationResult under construction
    retErr,      \* the error Validate returns: "nil" or what failed
    currentStep, \* Validate's local currentStep
    totalSteps,  \* Validate's local totalSteps
    successCount,
    failCount,
    stmtIdx,     \* number of statements the replay loop has gone through
    polls,       \* ticks of WaitForMySQL so far
    executed,    \* history: the statements handed to ExecuteSQL, in order
    callbacks,   \* history: the (step, total, failed) progress callbacks
    preFail,     \* history: the pre-replay step whose operation failed, "none" if none
    container,   \* the sandbox container on the host: "none" | "running" | "removed"
    started,     \* history: docker run created a container in this run
    teardownCalls, \* history: number of RemoveContainer calls of this run
    deferred,    \* the deferred RemoveContainer is registered
    sandboxTables, \* table names in the sandbox database
    compareRan,  \* history: compareSchemaInContainer was called
    extracted    \* history: <<>> or <<set of table names re-extracted>>

auxVars  == <<store, callers, bareAccess, catalog, failing, extraction, mw>>
pipeVars == <<source, target, rules, stage, schemaDiff, script, scriptWarnings, assessment,
              auxVars>>
valVars  == <<pc, opts, ctxDone, cancelledAt, result, retErr, currentStep, totalSteps,
              successCount, failCount, stmtIdx, polls, executed, callbacks, preFail,
              container, started, teardownCalls, deferred, sandboxTables,
              compareRan, extracted>>
vars == <<pipeVars, valVars>>

-----------------------------------------------------------------------------
(* Generic helpers *)

NilPtr == <<>>
Ptr(x) == <<x>>
IsNil(p) == p = <<>>
Deref(p) == p[1]

\* v := the value; the rest of the body F reads the local v
Let(v, F(_)) == F(v)

Reverse(s) == [i \in 1..Len(s) |-> s[Len(s) + 1 - i]]

\* append(acc, F(s[1])...), append(acc, F(s[2])...), ...: a loop that appends
ConcatMap(F(_), s) ==
    LET f[i \in 0..Len(s)] == IF i = 0 THEN <<>> ELSE f[i - 1] \o F(s[i])
    IN  f[Len(s)]

Range(s) == {s[i] : i \in 1..Len(s)}

\* The lexicographic order of every map key of the model.
NameOrder ==
    <<"PRIMARY", "f_tax", "fk_log_order", "fk_order_user", "idx_amount", "idx_user",
      "orders", "p_sync", "tmp_log", "trg_audit", "v_stats">>

\* One iteration of a Go map with key set K: ascending or descending.
KeySeq(K, rev) ==
    LET asc == SelectSeq(NameOrder, LAMBDA n : n \in K)
    IN  IF rev THEN Reverse(asc) ELSE asc

\* The characters of the strings the code looks into.
Chars(s) ==
    CASE s = "orders"        -> <<"o","r","d","e","r","s">>
      [] s = "tmp_log"       -> <<"t","m","p","_","l","o","g">>
      [] s = "id"            -> <<"i","d">>
      [] s = "user_id"       -> <<"u","s","e","r","_","i","d">>
      [] s = "amount"        -> <<"a","m","o","u","n","t">>
      [] s = "note"          -> <<"n","o","t","e">>
      [] s = "tmp_*"         -> <<"t","m","p","_","*">>
      [] s = "orders.amount" -> <<"o","r","d","e","r","s",".","a","m","o","u","n","t">>
      [] s = "*.n?te"        -> <<"*",".","n","?","t","e">>
      [] s = "bigint"        -> <<"b","i","g","i","n","t">>
      [] s = "int"           -> <<"i","n","t">>
      [] s = "DECIMAL(10,2)" -> <<"D","E","C","I","M","A","L","(","1","0",",","2",")">>
      [] s = "decimal(10,2)" -> <<"d","e","c","i","m","a","l","(","1","0",",","2",")">>
      [] s = "varchar(50)"   -> <<"v","a","r","c","h","a","r","(","5","0",")">>
      [] s = "varchar(20)"   -> <<"v","a","r","c","h","a","r","(","2","0",")">>
      [] s = "int unsigned"  -> <<"i","n","t"," ","u","n","s","i","g","n","e","d">>
      [] s = "tinyint"       -> <<"t","i","n","y","i","n","t">>
      [] s = "smallint"      -> <<"s","m","a","l","l","i","n","t">>
      [] s = "mediumint"     -> <<"m","e","d","i","u","m","i","n","t">>
      [] s = "decimal"       -> <<"d","e","c","i","m","a","l">>
      [] s = "varchar"       -> <<"v","a","r","c","h","a","r">>
      [] s = "BIGINT"        -> <<"B","I","G","I","N","T">>
      [] s = "int(11)"       -> <<"i","n","t","(","1","1",")">>
      [] s = "tinyint(4)"    -> <<"t","i","n","y","i","n","t","(","4",")">>
      [] s = "varchar(5)"    -> <<"v","a","r","c","h","a","r","(","5",")">>

-----------------------------------------------------------------------------
(* internal/diff: types *)

DiffTypeAdded    == 0
DiffTypeRemoved  == 1
DiffTypeModified == 2

SeverityInfo    == 0
SeverityWarning == 1
SeverityDanger  == 2

PropertyDiff(p, old, new) == [Property |-> p, OldValue |-> old, NewValue |-> new]

-----------------------------------------------------------------------------
(* internal/diff: strings the engine parses *)

\* strings.Index(s, ch): the 0-based index of the first ch, -1 if there is none
IndexOf(cs, ch) ==
    IF \E i \in 1..Len(cs) : cs[i] = ch
    THEN (CHOOSE i \in 1..Len(cs) : cs[i] = ch /\ \A j \in 1..(i - 1) : cs[j] # ch) - 1
    ELSE -1

Digits == <<"0", "1", "2", "3", "4", "5", "6", "7", "8", "9">>
IsDigit(c) == c \in Range(Digits)
DigitVal(c) == (CHOOSE i \in 1..10 : Digits[i] = c) - 1

\* fmt.Sscanf(text, "%d", &length): the leading decimal digits of text; length
\* keeps its zero value when there are none.  (The model's types carry no sign.)
ScanInt(cs) ==
    LET f[i \in 0..Len(cs)] ==
            IF i = 0 THEN [val |-> 0, live |-> TRUE]
            ELSE IF f[i - 1].live /\ IsDigit(cs[i])
                 THEN [val |-> f[i - 1].val * 10 + DigitVal(cs[i]), live |-> TRUE]
                 ELSE [val |-> f[i - 1].val, live |-> FALSE]
    IN  f[Len(cs)].val

Upper == <<"A","B","C","D","E","F","G","H","I","J","K","L","M",
           "N","O","P","Q","R","S","T","U","V","W","X","Y","Z">>
Lower == <<"a","b","c","d","e","f","g","h","i","j","k","l","m",
           "n","o","p","q","r","s","t","u","v","w","x","y","z">>
ToLower(cs) ==
    [i \in 1..Len(cs) |->
        IF cs[i] \in Range(Upper)
        THEN Lower[CHOOSE k \in 1..26 : Upper[k] = cs[i]]
        ELSE cs[i]]

extractTypeLength(colType) ==
    Let(Chars(colType), LAMBDA cs :
    Let(IndexOf(cs, "("), LAMBDA start :
    Let(IndexOf(cs, ")"), LAMBDA end :
        IF start > 0 /\ end > start THEN ScanInt(SubSeq(cs, start + 2, end)) ELSE 0)))

extractBaseType(colType) ==
    Let(ToLower(Chars(colType)), LAMBDA cs0 :
    Let(IndexOf(cs0, "("), LAMBDA i1 :
    Let(IF i1 > 0 THEN SubSeq(cs0, 1, i1) ELSE cs0, LAMBDA cs1 :
    Let(IndexOf(cs1, " "), LAMBDA i2 :
        IF i2 > 0 THEN SubSeq(cs1, 1, i2) ELSE cs1))))

\* numericOrder[base], 0 when base is no key of the map
numericOrder(base) ==
    CASE base = Chars("tinyint")   -> 1
      [] base = Chars("smallint")  -> 2
      [] base = Chars("mediumint") -> 3
      [] base = Chars("int")       -> 4
      [] base = Chars("bigint")    -> 5
      [] OTHER                     -> 0

isTypeShrink(oldType, newType) ==
    Let(extractTypeLength(oldType), LAMBDA oldLen :
    Let(extractTypeLength(newType), LAMBDA newLen :
    Let(numericOrder(extractBaseType(oldType)), LAMBDA oldOrder :
    Let(numericOrder(extractBaseType(newType)), LAMBDA newOrder :
        \/ (oldLen > 0 /\ newLen > 0 /\ newLen < oldLen)
        \/ (oldOrder > 0 /\ newOrder > 0 /\ newOrder < oldOrder)))))

isTypeChange(oldType, newType) == extractBaseType(oldType) # extractBaseType(newType)

\* filepath.Match(pattern, name) for patterns of literals, "*" and "?" (the
\* model's patterns hold no character class, no escape and no separator).
RECURSIVE globMatch(_, _)
globMatch(p, s) ==
    IF p = <<>> THEN s = <<>>
    ELSE IF Head(p) = "*"
         THEN globMatch(Tail(p), s) \/ (s # <<>> /\ globMatch(p, Tail(s)))
         ELSE IF s = <<>> THEN FALSE
              ELSE /\ Head(p) = "?" \/ Head(p) = Head(s)
                   /\ globMatch(Tail(p), Tail(s))

\* strings.Split(pattern, "."): the parts between the dots
RECURSIVE splitDot(_)
splitDot(cs) ==
    Let(IndexOf(cs, "."), LAMBDA i :
        IF i < 0 THEN <<cs>>
        ELSE <<SubSeq(cs, 1, i)>> \o splitDot(SubSeq(cs, i + 2, Len(cs))))

-----------------------------------------------------------------------------
(* internal/diff: the engine *)

shouldIgnoreTable(r, tableName) ==
    \E i \in 1..Len(r.Tables) : globMatch(Chars(r.Tables[i]), Chars(tableName))

ignoredColumn(r, tableName, columnName) ==
    \E i \in 1..Len(r.Columns) :
        Let(splitDot(Chars(r.Columns[i])), LAMBDA parts :
            /\ Len(parts) = 2
            /\ globMatch(parts[1], Chars(tableName))
            /\ globMatch(parts[2], Chars(columnName)))

\* A filter that lets every column diff through.
filterIgnoredColumnsKeepAll(r, tableName, diffs) == diffs

filterIgnoredColumns(r, tableName, diffs) ==
    SelectSeq(diffs, LAMBDA d : ~ignoredColumn(r, tableName, d.ColumnName))

\* the severity and whether a risk note is attached
assessColumnRisk(src, tgt, changes) ==
    LET f[i \in 0..Len(changes)] ==
            IF i = 0 THEN SeverityInfo
            ELSE Let(f[i - 1], LAMBDA sev :
                 Let(changes[i], LAMBDA ch :
                     IF ch.Property = "type"
                     THEN IF isTypeShrink(tgt.ColumnType, src.ColumnType)
                          THEN SeverityDanger
                          ELSE IF isTypeChange(tgt.ColumnType, src.ColumnType)
                               THEN (IF sev < SeverityWarning THEN SeverityWarning ELSE sev)
                               ELSE sev
                     ELSE IF ch.Property = "nullable"
                          THEN IF ~src.IsNullable /\ tgt.IsNullable
                               THEN (IF sev < SeverityWarning THEN SeverityWarning ELSE sev)
                               ELSE sev
                          ELSE sev))
    IN  f[Len(changes)]

StrOfPtr(p) == IF IsNil(p) THEN "" ELSE Deref(p)
NullText(b) == IF b THEN "NULL" ELSE "NOT NULL"
YesNo(b) == IF b THEN "yes" ELSE "no"

\* the change list of one column, in the order the code appends
columnChanges(src, tgt, o) ==
       (IF src.ColumnType # tgt.ColumnType
        THEN <<PropertyDiff("type", tgt.ColumnType, src.ColumnType)>> ELSE <<>>)
    \o (IF src.IsNullable # tgt.IsNullable
        THEN <<PropertyDiff("nullable", NullText(tgt.IsNullable), NullText(src.IsNullable))>>
        ELSE <<>>)
    \o (IF StrOfPtr(src.DefaultValue) # StrOfPtr(tgt.DefaultValue)
        THEN <<PropertyDiff("default", StrOfPtr(tgt.DefaultValue), StrOfPtr(src.DefaultValue))>>
        ELSE <<>>)
    \o (IF ~o.IgnoreComments /\ src.Comment # tgt.Comment
        THEN <<PropertyDiff("comment", tgt.Comment, src.Comment)>> ELSE <<>>)
    \o (IF src.IsAutoIncr # tgt.IsAutoIncr
        THEN <<PropertyDiff("autoIncrement", YesNo(tgt.IsAutoIncr), YesNo(src.IsAutoIncr))>>
        ELSE <<>>)
    \o (IF ~o.IgnoreCharset /\ src.CharsetName # tgt.CharsetName
        THEN <<PropertyDiff("charset", tgt.CharsetName, src.CharsetName)>> ELSE <<>>)
    \o (IF ~o.IgnoreCollation /\ src.CollationName # tgt.CollationName
        THEN <<PropertyDiff("collation", tgt.CollationName, src.CollationName)>> ELSE <<>>)

\* <<>> (nil: no change) or <<the ColumnDiff>>
compareColumnWithOptions(src, tgt, o) ==
    Let(columnChanges(src, tgt, o), LAMBDA changes :
        IF Len(changes) = 0 THEN <<>>
        ELSE <<[ColumnName |-> src.Name, DiffType |-> DiffTypeModified,
                Severity |-> assessColumnRisk(src, tgt, changes),
                OldColumn |-> Ptr(tgt), NewColumn |-> Ptr(src), Changes |-> changes]>>)

\* targetMap[name]: the last column of that name (a later one overwrites)
colByName(cols, name) ==
    cols[CHOOSE i \in 1..Len(cols) :
            cols[i].Name = name /\ \A j \in (i + 1)..Len(cols) : cols[j].Name # name]

colNames(cols) == {cols[i].Name : i \in 1..Len(cols)}

compareColumnsWithOptions(sourceCols, targetCols, o) ==
       ConcatMap(LAMBDA srcCol :
                    IF srcCol.Name \notin colNames(targetCols)
                    THEN <<[ColumnName |-> srcCol.Name, DiffType |-> DiffTypeAdded,
                            Severity |-> SeverityInfo, OldColumn |-> NilPtr,
                            NewColumn |-> Ptr(srcCol), Changes |-> <<>>]>>
                    ELSE compareColumnWithOptions(srcCol, colByName(targetCols, srcCol.Name), o),
                 sourceCols)
    \o ConcatMap(LAMBDA tgtCol :
                    IF tgtCol.Name \notin colNames(sourceCols)
                    THEN <<[ColumnName |-> tgtCol.Name, DiffType |-> DiffTypeRemoved,
                            Severity |-> SeverityDanger, OldColumn |-> Ptr(tgtCol),
                            NewColumn |-> NilPtr, Changes |-> <<>>]>>
                    ELSE <<>>,
                 targetCols)

\* An index comparison that takes two equal prefix lengths for a difference.
indexEqualsPrefixFlipped(a, b) ==
    /\ a.Type = b.Type /\ a.IsUnique = b.IsUnique /\ a.IsPrimary = b.IsPrimary
    /\ Len(a.Columns) = Len(b.Columns)
    /\ \A i \in 1..Len(a.Columns) :
          /\ a.Columns[i].Name = b.Columns[i].Name
          /\ a.Columns[i].SeqInIdx = b.Columns[i].SeqInIdx
          /\ IsNil(a.Columns[i].SubPart) = IsNil(b.Columns[i].SubPart)
          /\ (~IsNil(a.Columns[i].SubPart) =>
                 Deref(a.Columns[i].SubPart) # Deref(b.Columns[i].SubPart))

indexEquals(a, b) ==
    /\ a.Type = b.Type /\ a.IsUnique = b.IsUnique /\ a.IsPrimary = b.IsPrimary
    /\ Len(a.Columns) = Len(b.Columns)
    /\ \A i \in 1..Len(a.Columns) :
          /\ a.Columns[i].Name = b.Columns[i].Name
          /\ a.Columns[i].SeqInIdx = b.Columns[i].SeqInIdx
          /\ IsNil(a.Columns[i].SubPart) = IsNil(b.Columns[i].SubPart)
          /\ (~IsNil(a.Columns[i].SubPart) =>
                 Deref(a.Columns[i].SubPart) = Deref(b.Columns[i].SubPart))

compareIndexes(sourceIdxs, targetIdxs, rev) ==
       ConcatMap(LAMBDA name :
                    IF name \notin DOMAIN targetIdxs
                    THEN <<[IndexName |-> name, DiffType |-> DiffTypeAdded,
                            Severity |-> SeverityInfo, OldIndex |-> NilPtr,
                            NewIndex |-> Ptr(sourceIdxs[name])]>>
                    ELSE IF ~indexEquals(sourceIdxs[name], targetIdxs[name])
                         THEN <<[IndexName |-> name, DiffType |-> DiffTypeModified,
                                 Severity |-> SeverityWarning,
                                 OldIndex |-> Ptr(targetIdxs[name]),
                                 NewIndex |-> Ptr(sourceIdxs[name])]>>
                         ELSE <<>>,
                 KeySeq(DOMAIN sourceIdxs, rev))
    \o ConcatMap(LAMBDA name :
                    IF name \notin DOMAIN sourceIdxs
                    THEN <<[IndexName |-> name, DiffType |-> DiffTypeRemoved,
                            Severity |-> SeverityWarning,
                            OldIndex |-> Ptr(targetIdxs[name]), NewIndex |-> NilPtr]>>
                    ELSE <<>>,
                 KeySeq(DOMAIN targetIdxs, rev))

\* A foreign key comparison that takes every pair for equal.
foreignKeyEqualsAlways(a, b) == TRUE

\* The loop indexes RefColumns by the positions of Columns; the extractor appends
\* to both lists together, so the two have one length in every extracted schema.
foreignKeyEquals(a, b) ==
    /\ a.RefTable = b.RefTable /\ a.OnDelete = b.OnDelete /\ a.OnUpdate = b.OnUpdate
    /\ Len(a.Columns) = Len(b.Columns) /\ Len(a.RefColumns) = Len(b.RefColumns)
    /\ \A i \in 1..Len(a.Columns) :
          a.Columns[i] = b.Columns[i] /\ a.RefColumns[i] = b.RefColumns[i]

\* compareForeignKeys whose second loop reports every target key as removed
compareForeignKeysAllRemoved(sourceFKs, targetFKs, rev) ==
       ConcatMap(LAMBDA name :
                    IF name \notin DOMAIN targetFKs
                    THEN <<[FKeyName |-> name, DiffType |-> DiffTypeAdded,
                            Severity |-> SeverityWarning, OldFKey |-> NilPtr,
                            NewFKey |-> Ptr(sourceFKs[name])]>>
                    ELSE IF ~foreignKeyEquals(sourceFKs[name], targetFKs[name])
                         THEN <<[FKeyName |-> name, DiffType |-> DiffTypeModified,
                                 Severity |-> SeverityWarning,
                                 OldFKey |-> Ptr(targetFKs[name]),
                                 NewFKey |-> Ptr(sourceFKs[name])]>>
                         ELSE <<>>,
                 KeySeq(DOMAIN sourceFKs, rev))
    \o ConcatMap(LAMBDA name :
                    <<[FKeyName |-> name, DiffType |-> DiffTypeRemoved,
                       Severity |-> SeverityWarning,
                       OldFKey |-> Ptr(targetFKs[name]), NewFKey |-> NilPtr]>>,
                 KeySeq(DOMAIN targetFKs, rev))

compareForeignKeys(sourceFKs, targetFKs, rev) ==
       ConcatMap(LAMBDA name :
                    IF name \notin DOMAIN targetFKs
                    THEN <<[FKeyName |-> name, DiffType |-> DiffTypeAdded,
                            Severity |-> SeverityWarning, OldFKey |-> NilPtr,
                            NewFKey |-> Ptr(sourceFKs[name])]>>
                    ELSE IF ~foreignKeyEquals(sourceFKs[name], targetFKs[name])
                         THEN <<[FKeyName |-> name, DiffType |-> DiffTypeModified,
                                 Severity |-> SeverityWarning,
                                 OldFKey |-> Ptr(targetFKs[name]),
                                 NewFKey |-> Ptr(sourceFKs[name])]>>
                         ELSE <<>>,
                 KeySeq(DOMAIN sourceFKs, rev))
    \o ConcatMap(LAMBDA name :
                    IF name \notin DOMAIN sourceFKs
                    THEN <<[FKeyName |-> name, DiffType |-> DiffTypeRemoved,
                            Severity |-> SeverityWarning,
                            OldFKey |-> Ptr(targetFKs[name]), NewFKey |-> NilPtr]>>
                    ELSE <<>>,
                 KeySeq(DOMAIN targetFKs, rev))

MaxOf(a, b) == IF b > a THEN b ELSE a

\* the highest Severity of a list of sub-diffs, starting from sev
maxSeverity(sev, diffs) ==
    LET f[i \in 0..Len(diffs)] ==
            IF i = 0 THEN sev ELSE MaxOf(f[i - 1], diffs[i].Severity)
    IN  f[Len(diffs)]

tableProps(src, tgt, o) ==
       (IF src.Engine # tgt.Engine
        THEN <<PropertyDiff("ENGINE", tgt.Engine, src.Engine)>> ELSE <<>>)
    \o (IF ~o.IgnoreCharset /\ src.Charset # tgt.Charset
        THEN <<PropertyDiff("CHARSET", tgt.Charset, src.Charset)>> ELSE <<>>)
    \o (IF ~o.IgnoreCollation /\ src.Collation # tgt.Collation
        THEN <<PropertyDiff("COLLATION", tgt.Collation, src.Collation)>> ELSE <<>>)
    \o (IF ~o.IgnoreComments /\ src.Comment # tgt.Comment
        THEN <<PropertyDiff("COMMENT", tgt.Comment, src.Comment)>> ELSE <<>>)

compareTablesWithOptions(src, tgt, o, rev) ==
    Let(compareColumnsWithOptions(src.Columns, tgt.Columns, o), LAMBDA cds :
    Let(compareIndexes(src.Indexes, tgt.Indexes, rev), LAMBDA ids :
    Let(compareForeignKeys(src.ForeignKeys, tgt.ForeignKeys, rev), LAMBDA fds :
        [TableName |-> src.Name, DiffType |-> DiffTypeModified,
         Severity |-> maxSeverity(maxSeverity(maxSeverity(SeverityInfo, cds), ids), fds),
         OldTable |-> Ptr(tgt), NewTable |-> Ptr(src),
         ColumnDiffs |-> cds, IndexDiffs |-> ids, FKeyDiffs |-> fds,
         TableProps |-> tableProps(src, tgt, o)])))

compareOptions(r) ==
    [IgnoreComments |-> r.IgnoreComments, IgnoreCharset |-> r.IgnoreCharset,
     IgnoreCollation |-> r.IgnoreCollation]

\* A removed table reported as a mere warning.
removedTableDiffAsWarning(name, tgtTable) ==
    [TableName |-> name, DiffType |-> DiffTypeRemoved, Severity |-> SeverityWarning,
     OldTable |-> Ptr(tgtTable), NewTable |-> NilPtr,
     ColumnDiffs |-> <<>>, IndexDiffs |-> <<>>, FKeyDiffs |-> <<>>, TableProps |-> <<>>]

\* the TableDiff of a table of the target that the source does not hold
removedTableDiff(name, tgtTable) ==
    [TableName |-> name, DiffType |-> DiffTypeRemoved, Severity |-> SeverityDanger,
     OldTable |-> Ptr(tgtTable), NewTable |-> NilPtr,
     ColumnDiffs |-> <<>>, IndexDiffs |-> <<>>, FKeyDiffs |-> <<>>, TableProps |-> <<>>]

\* it: the direction of each map iteration of this call
compareTables(r, sourceTables, targetTables, it) ==
       ConcatMap(LAMBDA name :
                    IF shouldIgnoreTable(r, name) THEN <<>>
                    ELSE IF name \notin DOMAIN targetTables
                    THEN <<[TableName |-> name, DiffType |-> DiffTypeAdded,
                            Severity |-> SeverityInfo, OldTable |-> NilPtr,
                            NewTable |-> Ptr(sourceTables[name]),
                            ColumnDiffs |-> <<>>, IndexDiffs |-> <<>>,
                            FKeyDiffs |-> <<>>, TableProps |-> <<>>]>>
                    ELSE Let(compareTablesWithOptions(sourceTables[name],
                                    targetTables[name], compareOptions(r), it.sub),
                             LAMBDA td0 :
                         Let([td0 EXCEPT !.ColumnDiffs =
                                    filterIgnoredColumns(r, name, td0.ColumnDiffs)],
                             LAMBDA td :
                             IF \/ Len(td.ColumnDiffs) > 0 \/ Len(td.IndexDiffs) > 0
                                \/ Len(td.FKeyDiffs) > 0 \/ Len(td.TableProps) > 0
                             THEN <<td>> ELSE <<>>)),
                 KeySeq(DOMAIN sourceTables, it.src))
    \o ConcatMap(LAMBDA name :
                    IF shouldIgnoreTable(r, name) THEN <<>>
                    ELSE IF name \notin DOMAIN sourceTables
                    THEN <<removedTableDiff(name, targetTables[name])>>
                    ELSE <<>>,
                 KeySeq(DOMAIN targetTables, it.tgt))

\* A view test that looks at the names, which are equal for every pair compared.
viewDiffersByName(s, t) == s.Name # t.Name

viewDiffers(s, t) == s.Definition # t.Definition
procDiffers(s, t) == s.Definition # t.Definition
funcDiffers(s, t) == s.Definition # t.Definition \/ s.Returns # t.Returns
triggerDiffers(s, t) ==
    s.Statement # t.Statement \/ s.Event # t.Event \/ s.Timing # t.Timing

\* the test that makes a pair of one class Modified
objectDiffers(class, s, t) ==
    CASE class = "VIEW"      -> viewDiffers(s, t)
      [] class = "PROCEDURE" -> procDiffers(s, t)
      [] class = "FUNCTION"  -> funcDiffers(s, t)
      [] class = "TRIGGER"   -> triggerDiffers(s, t)

\* The four loops over views, procedures, functions and triggers have one shape
\* and differ in the test that makes a pair Modified.
compareObjects(src, tgt, class, rev) ==
       ConcatMap(LAMBDA name :
                    IF name \notin DOMAIN tgt
                    THEN <<[Name |-> name, DiffType |-> DiffTypeAdded,
                            Severity |-> SeverityInfo, Old |-> NilPtr,
                            New |-> Ptr(src[name])]>>
                    ELSE IF objectDiffers(class, src[name], tgt[name])
                         THEN <<[Name |-> name, DiffType |-> DiffTypeModified,
                                 Severity |-> SeverityWarning, Old |-> Ptr(tgt[name]),
                                 New |-> Ptr(src[name])]>>
                         ELSE <<>>,
                 KeySeq(DOMAIN src, rev))
    \o ConcatMap(LAMBDA name :
                    IF name \notin DOMAIN src
                    THEN <<[Name |-> name, DiffType |-> DiffTypeRemoved,
                            Severity |-> SeverityWarning, Old |-> Ptr(tgt[name]),
                            New |-> NilPtr]>>
                    ELSE <<>>,
                 KeySeq(DOMAIN tgt, rev))

compareViews(src, tgt, rev)      == compareObjects(src, tgt, "VIEW", rev)
compareProcedures(src, tgt, rev) == compareObjects(src, tgt, "PROCEDURE", rev)
compareFunctions(src, tgt, rev)  == compareObjects(src, tgt, "FUNCTION", rev)
compareTriggers(src, tgt, rev)   == compareObjects(src, tgt, "TRIGGER", rev)

calculateStatistics(d) ==
    [TablesAdded   |-> Len(SelectSeq(d.TableDiffs, LAMBDA x : x.DiffType = DiffTypeAdded)),
     TablesRemoved |-> Len(SelectSeq(d.TableDiffs, LAMBDA x : x.DiffType = DiffTypeRemoved)),
     TablesChanged |-> Len(SelectSeq(d.TableDiffs, LAMBDA x : x.DiffType = DiffTypeModified)),
     DangerCount   |-> Len(SelectSeq(d.TableDiffs, LAMBDA x : x.Severity = SeverityDanger)),
     WarningCount  |-> Len(SelectSeq(d.TableDiffs, LAMBDA x : x.Severity = SeverityWarning)),
     InfoCount     |-> Len(SelectSeq(d.TableDiffs, LAMBDA x : x.Severity = SeverityInfo)),
     TotalDiffs    |-> Len(d.TableDiffs) + Len(d.ViewDiffs) + Len(d.ProcDiffs)
                       + Len(d.FuncDiffs) + Len(d.TriggerDiffs)]

Compare(r, src, tgt, it) ==
    Let([TableDiffs   |-> compareTables(r, src.Tables, tgt.Tables, it),
         ViewDiffs    |-> compareViews(src.Views, tgt.Views, it.sub),
         ProcDiffs    |-> compareProcedures(src.Procedures, tgt.Procedures, it.sub),
         FuncDiffs    |-> compareFunctions(src.Functions, tgt.Functions, it.sub),
         TriggerDiffs |-> compareTriggers(src.Triggers, tgt.Triggers, it.sub)],
        LAMBDA d :
        [TableDiffs |-> d.TableDiffs, ViewDiffs |-> d.ViewDiffs, ProcDiffs |-> d.ProcDiffs,
         FuncDiffs |-> d.FuncDiffs, TriggerDiffs |-> d.TriggerDiffs,
         Statistics |-> calculateStatistics(d)])

HasDiff(d) ==
    \/ Len(d.TableDiffs) > 0 \/ Len(d.ViewDiffs) > 0 \/ Len(d.ProcDiffs) > 0
    \/ Len(d.FuncDiffs) > 0 \/ Len(d.TriggerDiffs) > 0

-----------------------------------------------------------------------------
(* sqlgen: the MySQL generator *)

SQLStatement(sql, objectType, objectName, operation, severity) ==
    [SQL |-> sql, ObjectType |-> objectType, ObjectName |-> objectName,
     Operation |-> operation, Severity |-> severity]

\* strings.Contains(s, sub)
Contains(cs, sub) ==
    \E i \in 1..(Len(cs) - Len(sub) + 1) : SubSeq(cs, i, i + Len(sub) - 1) = sub

\* The bare value, or the value marked QUOTED where the code puts it between
\* single quotes.  The default values of the model hold no quote and no backslash,
\* which escapeString would double, and are written in one case.
formatDefaultValue(value, dataType) ==
    Let(ToLower(Chars(dataType)), LAMBDA lowerType :
        IF value \in {"NULL", "CURRENT_TIMESTAMP"} THEN <<value>>
        ELSE IF \/ Contains(lowerType, <<"i","n","t">>)
                \/ Contains(lowerType, <<"d","e","c","i","m","a","l">>)
                \/ Contains(lowerType, <<"f","l","o","a","t">>)
                \/ Contains(lowerType, <<"d","o","u","b","l","e">>)
             THEN <<value>>
             ELSE <<"QUOTED", value>>)

\* the parts both buildAddColumnSQL and buildModifyColumnSQL append after the head
columnParts(col) ==
       <<col.ColumnType, NullText(col.IsNullable)>>
    \o (IF ~IsNil(col.DefaultValue)
        THEN <<"DEFAULT">> \o formatDefaultValue(Deref(col.DefaultValue), col.DataType)
        ELSE <<>>)
    \o (IF col.IsAutoIncr THEN <<"AUTO_INCREMENT">> ELSE <<>>)
    \o (IF col.Comment # "" THEN <<"COMMENT", col.Comment>> ELSE <<>>)

buildAddColumnSQL(tableName, col) ==
    <<"ALTER TABLE %s ADD COLUMN %s", tableName, col.Name>> \o columnParts(col) \o <<";">>

buildModifyColumnSQL(tableName, col) ==
    <<"ALTER TABLE %s MODIFY COLUMN %s", tableName, col.Name>> \o columnParts(col) \o <<";">>

generateColumnStatements(tableName, cd) ==
    CASE cd.DiffType = DiffTypeAdded ->
            IF ~IsNil(cd.NewColumn)
            THEN <<SQLStatement(buildAddColumnSQL(tableName, Deref(cd.NewColumn)), "COLUMN",
                                <<tableName, cd.ColumnName>>, "ADD", SeverityInfo)>>
            ELSE <<>>
      [] cd.DiffType = DiffTypeRemoved ->
            <<SQLStatement(<<"ALTER TABLE %s DROP COLUMN %s;", tableName, cd.ColumnName>>,
                           "COLUMN", <<tableName, cd.ColumnName>>, "DROP", SeverityDanger)>>
      [] cd.DiffType = DiffTypeModified ->
            IF ~IsNil(cd.NewColumn)
            THEN <<SQLStatement(buildModifyColumnSQL(tableName, Deref(cd.NewColumn)), "COLUMN",
                                <<tableName, cd.ColumnName>>, "MODIFY", cd.Severity)>>
            ELSE <<>>

buildCreateIndexSQL(tableName, idx) ==
    Let(ConcatMap(LAMBDA c : IF IsNil(c.SubPart) THEN <<c.Name>>
                             ELSE <<c.Name, "(%d)", ToString(Deref(c.SubPart))>>,
                  idx.Columns), LAMBDA colList :
        IF idx.IsPrimary
        THEN <<"ALTER TABLE %s ADD PRIMARY KEY (%s);", tableName>> \o colList
        ELSE <<"ALTER TABLE %s ADD %s %s (%s);", tableName,
               (CASE idx.Type = "UNIQUE"   -> "UNIQUE INDEX"
                  [] idx.Type = "FULLTEXT" -> "FULLTEXT INDEX"
                  [] idx.Type = "SPATIAL"  -> "SPATIAL INDEX"
                  [] OTHER                 -> "INDEX"),
               idx.Name>> \o colList)

dropIndexSQL(tableName, id) ==
    IF Deref(id.OldIndex).IsPrimary
    THEN <<"ALTER TABLE %s DROP PRIMARY KEY;", tableName>>
    ELSE <<"ALTER TABLE %s DROP INDEX %s;", tableName, id.IndexName>>

generateIndexStatements(tableName, id) ==
    CASE id.DiffType = DiffTypeAdded ->
            IF ~IsNil(id.NewIndex)
            THEN <<SQLStatement(buildCreateIndexSQL(tableName, Deref(id.NewIndex)), "INDEX",
                                <<tableName, id.IndexName>>, "CREATE", SeverityInfo)>>
            ELSE <<>>
      [] id.DiffType = DiffTypeRemoved ->
            IF ~IsNil(id.OldIndex)
            THEN <<SQLStatement(dropIndexSQL(tableName, id), "INDEX",
                                <<tableName, id.IndexName>>, "DROP", SeverityWarning)>>
            ELSE <<>>
      [] id.DiffType = DiffTypeModified ->
               (IF ~IsNil(id.OldIndex)
                THEN <<SQLStatement(dropIndexSQL(tableName, id), "INDEX",
                                    <<tableName, id.IndexName>>, "DROP", SeverityWarning)>>
                ELSE <<>>)
            \o (IF ~IsNil(id.NewIndex)
                THEN <<SQLStatement(buildCreateIndexSQL(tableName, Deref(id.NewIndex)), "INDEX",
                                    <<tableName, id.IndexName>>, "CREATE", SeverityWarning)>>
                ELSE <<>>)

generateAddForeignKey(tableName, fk) ==
    SQLStatement(
           <<"ALTER TABLE %s ADD CONSTRAINT %s FOREIGN KEY (%s) REFERENCES %s (%s)",
             tableName, fk.Name>> \o fk.Columns \o <<"REFERENCES", fk.RefTable>> \o fk.RefColumns
        \o (IF fk.OnDelete # "" /\ fk.OnDelete # "RESTRICT"
            THEN <<" ON DELETE ", fk.OnDelete>> ELSE <<>>)
        \o (IF fk.OnUpdate # "" /\ fk.OnUpdate # "RESTRICT"
            THEN <<" ON UPDATE ", fk.OnUpdate>> ELSE <<>>)
        \o <<";">>,
        "FOREIGN KEY", <<tableName, fk.Name>>, "ADD", SeverityWarning)

\* <<>> (nil) or <<the statement>>
generateTablePropertyStatement(tableName, prop) ==
    CASE prop.Property = "ENGINE" ->
            <<SQLStatement(<<"ALTER TABLE %s ENGINE = %s;", tableName, prop.NewValue>>,
                           "TABLE", <<tableName>>, "ALTER", SeverityInfo)>>
      [] prop.Property = "CHARSET" ->
            <<SQLStatement(<<"ALTER TABLE %s CONVERT TO CHARACTER SET %s;", tableName,
                             prop.NewValue>>,
                           "TABLE", <<tableName>>, "ALTER", SeverityInfo)>>
      [] prop.Property = "COLLATION" -> NilPtr
      [] prop.Property = "COMMENT" ->
            <<SQLStatement(<<"ALTER TABLE %s COMMENT = %s;", tableName, prop.NewValue>>,
                           "TABLE", <<tableName>>, "ALTER", SeverityInfo)>>
      [] OTHER -> NilPtr

dropForeignKey(tableName, fkName) ==
    SQLStatement(<<"ALTER TABLE %s DROP FOREIGN KEY %s;", tableName, fkName>>,
                 "FOREIGN KEY", <<tableName, fkName>>, "DROP", SeverityWarning)

\* The fourteen statement lists Generate collects while it walks the diff.
\* rev: the direction of the range over a removed table's ForeignKeys map.
collectStatements(d, rev) ==
    [dropFK |->
        ConcatMap(LAMBDA td :
            IF td.DiffType = DiffTypeRemoved
            THEN (IF ~IsNil(td.OldTable)
                  THEN ConcatMap(LAMBDA fkName : <<dropForeignKey(td.TableName, fkName)>>,
                                 KeySeq(DOMAIN Deref(td.OldTable).ForeignKeys, rev))
                  ELSE <<>>)
            ELSE IF td.DiffType = DiffTypeModified
                 THEN ConcatMap(LAMBDA fkd :
                                   IF fkd.DiffType \in {DiffTypeRemoved, DiffTypeModified}
                                   THEN <<dropForeignKey(td.TableName, fkd.FKeyName)>>
                                   ELSE <<>>,
                                td.FKeyDiffs)
                 ELSE <<>>,
            d.TableDiffs),
     dropTrigger |->
        ConcatMap(LAMBDA x :
            IF x.DiffType \in {DiffTypeRemoved, DiffTypeModified}
            THEN <<SQLStatement(<<"DROP TRIGGER IF EXISTS %s;", x.Name>>, "TRIGGER",
                                <<x.Name>>, "DROP", SeverityWarning)>>
            ELSE <<>>,
            d.TriggerDiffs),
     dropView |->
        ConcatMap(LAMBDA x :
            IF x.DiffType = DiffTypeRemoved
            THEN <<SQLStatement(<<"DROP VIEW IF EXISTS %s;", x.Name>>, "VIEW",
                                <<x.Name>>, "DROP", SeverityWarning)>>
            ELSE <<>>,
            d.ViewDiffs),
     dropProc |->
        ConcatMap(LAMBDA x :
            IF x.DiffType \in {DiffTypeRemoved, DiffTypeModified}
            THEN <<SQLStatement(<<"DROP PROCEDURE IF EXISTS %s;", x.Name>>, "PROCEDURE",
                                <<x.Name>>, "DROP", SeverityWarning)>>
            ELSE <<>>,
            d.ProcDiffs),
     dropFunc |->
        ConcatMap(LAMBDA x :
            IF x.DiffType \in {DiffTypeRemoved, DiffTypeModified}
            THEN <<SQLStatement(<<"DROP FUNCTION IF EXISTS %s;", x.Name>>, "FUNCTION",
                                <<x.Name>>, "DROP", SeverityWarning)>>
            ELSE <<>>,
            d.FuncDiffs),
     dropTable |->
        ConcatMap(LAMBDA td :
            IF td.DiffType = DiffTypeRemoved
            THEN <<SQLStatement(<<"DROP TABLE IF EXISTS %s;", td.TableName>>, "TABLE",
                                <<td.TableName>>, "DROP", SeverityDanger)>>
            ELSE <<>>,
            d.TableDiffs),
     alterTable |->
        ConcatMap(LAMBDA td :
            IF td.DiffType = DiffTypeModified
            THEN    ConcatMap(LAMBDA id :
                                 SelectSeq(generateIndexStatements(td.TableName, id),
                                           LAMBDA st : st.Operation = "DROP"),
                              td.IndexDiffs)
                 \o ConcatMap(LAMBDA cd : generateColumnStatements(td.TableName, cd),
                              td.ColumnDiffs)
                 \o ConcatMap(LAMBDA prop : generateTablePropertyStatement(td.TableName, prop),
                              td.TableProps)
            ELSE <<>>,
            d.TableDiffs),
     createTable |->
        ConcatMap(LAMBDA td :
            IF /\ td.DiffType = DiffTypeAdded
               /\ ~IsNil(td.NewTable)
               /\ Deref(td.NewTable).CreateSQL # <<>>
            THEN <<SQLStatement(Deref(td.NewTable).CreateSQL \o <<";">>, "TABLE",
                                <<td.TableName>>, "CREATE", SeverityInfo)>>
            ELSE <<>>,
            d.TableDiffs),
     createIndex |->
        ConcatMap(LAMBDA td :
            IF td.DiffType = DiffTypeModified
            THEN ConcatMap(LAMBDA id :
                              SelectSeq(generateIndexStatements(td.TableName, id),
                                        LAMBDA st : st.Operation # "DROP"),
                           td.IndexDiffs)
            ELSE <<>>,
            d.TableDiffs),
     createFK |->
        ConcatMap(LAMBDA td :
            IF td.DiffType = DiffTypeModified
            THEN ConcatMap(LAMBDA fkd :
                              IF /\ fkd.DiffType \in {DiffTypeAdded, DiffTypeModified}
                                 /\ ~IsNil(fkd.NewFKey)
                              THEN <<generateAddForeignKey(td.TableName, Deref(fkd.NewFKey))>>
                              ELSE <<>>,
                           td.FKeyDiffs)
            ELSE <<>>,
            d.TableDiffs),
     createFunc |->
        ConcatMap(LAMBDA x :
            IF /\ x.DiffType \in {DiffTypeAdded, DiffTypeModified}
               /\ ~IsNil(x.New) /\ Deref(x.New).Definition # ""
            THEN <<SQLStatement(<<Deref(x.New).Definition, ";">>, "FUNCTION", <<x.Name>>,
                                "CREATE",
                                IF x.DiffType = DiffTypeAdded THEN SeverityInfo
                                ELSE SeverityWarning)>>
            ELSE <<>>,
            d.FuncDiffs),
     createProc |->
        ConcatMap(LAMBDA x :
            IF /\ x.DiffType \in {DiffTypeAdded, DiffTypeModified}
               /\ ~IsNil(x.New) /\ Deref(x.New).Definition # ""
            THEN <<SQLStatement(<<Deref(x.New).Definition, ";">>, "PROCEDURE", <<x.Name>>,
                                "CREATE",
                                IF x.DiffType = DiffTypeAdded THEN SeverityInfo
                                ELSE SeverityWarning)>>
            ELSE <<>>,
            d.ProcDiffs),
     createView |->
        ConcatMap(LAMBDA x :
            IF x.DiffType = DiffTypeAdded /\ ~IsNil(x.New)
            THEN <<SQLStatement(<<"CREATE VIEW %s AS %s;", x.Name, Deref(x.New).Definition>>,
                                "VIEW", <<x.Name>>, "CREATE", SeverityInfo)>>
            ELSE IF x.DiffType = DiffTypeModified /\ ~IsNil(x.New)
                 THEN <<SQLStatement(<<"CREATE OR REPLACE VIEW %s AS %s;", x.Name,
                                       Deref(x.New).Definition>>,
                                     "VIEW", <<x.Name>>, "ALTER", SeverityWarning)>>
                 ELSE <<>>,
            d.ViewDiffs),
     createTrigger |->
        ConcatMap(LAMBDA x :
            IF x.DiffType \in {DiffTypeAdded, DiffTypeModified} /\ ~IsNil(x.New)
            THEN <<SQLStatement(<<"CREATE TRIGGER %s %s %s ON %s FOR EACH ROW %s;", x.Name,
                                  Deref(x.New).Timing, Deref(x.New).Event,
                                  Deref(x.New).Table, Deref(x.New).Statement>>,
                                "TRIGGER", <<x.Name>>, "CREATE",
                                IF x.DiffType = DiffTypeAdded THEN SeverityInfo
                                ELSE SeverityWarning)>>
            ELSE <<>>,
            d.TriggerDiffs)]

\* script.Warnings: one warning per removed table
collectWarnings(d) ==
    ConcatMap(LAMBDA td :
                 IF td.DiffType = DiffTypeRemoved
                 THEN <<<<"dropping table %s loses all its data", td.TableName>>>>
                 ELSE <<>>,
              d.TableDiffs)

\* A merge that puts the created tables in front of everything else.
mergeCreateTableFirst(g) ==
       g.createTable \o g.dropFK \o g.dropTrigger \o g.dropView \o g.dropProc \o g.dropFunc
    \o g.dropTable \o g.alterTable \o g.createIndex \o g.createFK
    \o g.createFunc \o g.createProc \o g.createView \o g.createTrigger

\* script.Statements: the fourteen lists appended in dependency order
mergeStatements(g) ==
       g.dropFK \o g.dropTrigger \o g.dropView \o g.dropProc \o g.dropFunc
    \o g.dropTable \o g.alterTable \o g.createTable \o g.createIndex \o g.createFK
    \o g.createFunc \o g.createProc \o g.createView \o g.createTrigger

Generate(d, rev) ==
    [Statements |-> mergeStatements(collectStatements(d, rev)),
     Warnings   |-> collectWarnings(d)]

-----------------------------------------------------------------------------
(* internal/gui/app.go: the RiskAssessor *)

RiskLow    == 0
RiskMedium == 1
RiskHigh   == 2

\* what one assess step adds to the RiskAssessment
Finding(score, warnings, suggestions) ==
    [Score |-> score, Warnings |-> warnings, Suggestions |-> suggestions]

\* the steps of a loop when each step assigns the score instead of adding to it
mergeFindingsAssigning(fs) ==
    LET f[i \in 0..Len(fs)] ==
            IF i = 0 THEN Finding(0, <<>>, <<>>)
            ELSE Finding(fs[i].Score,
                         f[i - 1].Warnings \o fs[i].Warnings,
                         f[i - 1].Suggestions \o fs[i].Suggestions)
    IN  f[Len(fs)]

\* the steps of a loop, accumulated in their order
mergeFindings(fs) ==
    LET f[i \in 0..Len(fs)] ==
            IF i = 0 THEN Finding(0, <<>>, <<>>)
            ELSE Finding(f[i - 1].Score + fs[i].Score,
                         f[i - 1].Warnings \o fs[i].Warnings,
                         f[i - 1].Suggestions \o fs[i].Suggestions)
    IN  f[Len(fs)]

assessColumnDiff(tableName, cd) ==
    CASE cd.DiffType = DiffTypeRemoved ->
            <<Finding(20, <<<<"drop column %s.%s: its data is lost", tableName,
                              cd.ColumnName>>>>, <<>>)>>
      [] cd.DiffType = DiffTypeModified ->
            ConcatMap(LAMBDA change :
                CASE change.Property = "type" ->
                        IF isTypeShrink(change.OldValue, change.NewValue)
                        THEN <<Finding(15, <<<<"column %s.%s shrinks from %s to %s: data may be truncated",
                                               tableName, cd.ColumnName, change.OldValue,
                                               change.NewValue>>>>, <<>>)>>
                        ELSE IF isTypeChange(change.OldValue, change.NewValue)
                             THEN <<Finding(10, <<<<"column %s.%s changes from %s to %s",
                                                    tableName, cd.ColumnName, change.OldValue,
                                                    change.NewValue>>>>, <<>>)>>
                             ELSE <<>>
                  [] change.Property = "nullable" ->
                        IF change.NewValue = "NOT NULL" /\ change.OldValue = "NULL"
                        THEN <<Finding(10, <<<<"column %s.%s becomes NOT NULL", tableName,
                                               cd.ColumnName>>>>,
                                       <<<<"update the NULL values of %s.%s first", tableName,
                                           cd.ColumnName>>>>)>>
                        ELSE <<>>
                  [] OTHER -> <<>>,
                cd.Changes)
      [] OTHER -> <<>>

\* assessIndexDiff that tests IsUnique before IsPrimary
assessIndexDiffUniqueFirst(tableName, id) ==
    CASE id.DiffType = DiffTypeRemoved ->
            IF ~IsNil(id.OldIndex) /\ Deref(id.OldIndex).IsUnique
            THEN <<Finding(10, <<<<"drop the unique index %s of %s", tableName,
                                   id.IndexName>>>>, <<>>)>>
            ELSE IF ~IsNil(id.OldIndex) /\ Deref(id.OldIndex).IsPrimary
                 THEN <<Finding(20, <<<<"drop the primary key of %s", tableName>>>>, <<>>)>>
                 ELSE <<>>
      [] id.DiffType = DiffTypeAdded ->
            <<Finding(0, <<>>, <<<<"adding index %s.%s may take long", tableName,
                                   id.IndexName>>>>)>>
      [] OTHER -> <<>>

assessIndexDiff(tableName, id) ==
    CASE id.DiffType = DiffTypeRemoved ->
            IF ~IsNil(id.OldIndex) /\ Deref(id.OldIndex).IsPrimary
            THEN <<Finding(20, <<<<"drop the primary key of %s", tableName>>>>, <<>>)>>
            ELSE IF ~IsNil(id.OldIndex) /\ Deref(id.OldIndex).IsUnique
                 THEN <<Finding(10, <<<<"drop the unique index %s of %s", tableName,
                                        id.IndexName>>>>, <<>>)>>
                 ELSE <<>>
      [] id.DiffType = DiffTypeAdded ->
            <<Finding(0, <<>>, <<<<"adding index %s.%s may take long", tableName,
                                   id.IndexName>>>>)>>
      [] OTHER -> <<>>

assessForeignKeyDiff(tableName, fkd) ==
    IF fkd.DiffType = DiffTypeAdded /\ ~IsNil(fkd.NewFKey)
    THEN <<Finding(5, <<<<"adding foreign key %s.%s may fail on existing data", tableName,
                          fkd.FKeyName>>>>,
                   <<<<"make sure every value of %s exists in %s", tableName,
                       Deref(fkd.NewFKey).RefTable>>>>)>>
    ELSE <<>>

assessTableDiff(td) ==
    CASE td.DiffType = DiffTypeRemoved ->
            <<Finding(30, <<<<"drop table %s: all its data is lost", td.TableName>>>>,
                      <<<<"back up %s before dropping it", td.TableName>>>>)>>
      [] td.DiffType = DiffTypeModified ->
               ConcatMap(LAMBDA cd : assessColumnDiff(td.TableName, cd), td.ColumnDiffs)
            \o ConcatMap(LAMBDA id : assessIndexDiff(td.TableName, id), td.IndexDiffs)
            \o ConcatMap(LAMBDA fkd : assessForeignKeyDiff(td.TableName, fkd), td.FKeyDiffs)
      [] OTHER -> <<>>

assessViewDiff(vd) ==
    CASE vd.DiffType = DiffTypeRemoved ->
            <<Finding(5, <<<<"drop view %s", vd.Name>>>>, <<>>)>>
      [] vd.DiffType = DiffTypeModified -> <<Finding(3, <<>>, <<>>)>>
      [] OTHER -> <<>>

assessProcedureDiff(pd) ==
    CASE pd.DiffType = DiffTypeRemoved ->
            <<Finding(10, <<<<"drop procedure %s", pd.Name>>>>, <<>>)>>
      [] pd.DiffType = DiffTypeModified ->
            <<Finding(5, <<<<"modify procedure %s", pd.Name>>>>, <<>>)>>
      [] OTHER -> <<>>

assessTriggerDiff(td) ==
    CASE td.DiffType = DiffTypeRemoved ->
            <<Finding(10, <<<<"drop trigger %s", td.Name>>>>, <<>>)>>
      [] td.DiffType = DiffTypeModified ->
            <<Finding(8, <<<<"modify trigger %s", td.Name>>>>, <<>>)>>
      [] OTHER -> <<>>

\* the counts of Danger and Warning table diffs the description is built from
generateDescription(d) ==
    [dangerOps  |-> Len(SelectSeq(d.TableDiffs, LAMBDA td : td.Severity = SeverityDanger)),
     warningOps |-> Len(SelectSeq(d.TableDiffs, LAMBDA td : td.Severity = SeverityWarning))]

Assess(d) ==
    Let(mergeFindings(   ConcatMap(LAMBDA td : assessTableDiff(td), d.TableDiffs)
                      \o ConcatMap(LAMBDA vd : assessViewDiff(vd), d.ViewDiffs)
                      \o ConcatMap(LAMBDA pd : assessProcedureDiff(pd), d.ProcDiffs)
                      \o ConcatMap(LAMBDA td : assessTriggerDiff(td), d.TriggerDiffs)),
        LAMBDA a :
            [Level       |-> IF a.Score >= 70 THEN RiskHigh
                             ELSE IF a.Score >= 40 THEN RiskMedium ELSE RiskLow,
             Score       |-> a.Score,
             Description |-> generateDescription(d),
             Warnings    |-> a.Warnings,
             Suggestions |-> a.Suggestions])

-----------------------------------------------------------------------------
(* The schemas the extractor hands to the pipeline *)

ColumnSchema(name, dataType, columnType, nullable, default, autoIncr, charset, collation, comment) ==
    [Name |-> name, DataType |-> dataType, ColumnType |-> columnType,
     IsNullable |-> nullable, DefaultValue |-> default, IsAutoIncr |-> autoIncr,
     CharsetName |-> charset, CollationName |-> collation, Comment |-> comment,
     Extra |-> "", GeneratedExpr |-> ""]

IndexColumn(name, seq, subPart) == [Name |-> name, SeqInIdx |-> seq, SubPart |-> subPart]

IndexSchema(name, type, unique, primary, columns) ==
    [Name |-> name, Type |-> type, IsUnique |-> unique, IsPrimary |-> primary,
     Columns |-> columns]

ForeignKey(name, columns, refTable, refColumns, onDelete, onUpdate) ==
    [Name |-> name, Columns |-> columns, RefTable |-> refTable, RefColumns |-> refColumns,
     OnDelete |-> onDelete, OnUpdate |-> onUpdate]

TableSchema(name, engine, charset, collation, comment, columns, indexes, fks, createSQL) ==
    [Name |-> name, Engine |-> engine, Charset |-> charset, Collation |-> collation,
     Comment |-> comment, Columns |-> columns, Indexes |-> indexes, ForeignKeys |-> fks,
     CreateSQL |-> createSQL]

\* a map from the records' names to the records
ByName(S) == [n \in {x.Name : x \in S} |-> CHOOSE x \in S : x.Name = n]

ColId      == ColumnSchema("id", "bigint", "bigint", FALSE, NilPtr, TRUE, "", "", "")
ColUserId  == ColumnSchema("user_id", "bigint", "bigint", FALSE, NilPtr, FALSE, "", "", "")
ColAmount  == ColumnSchema("amount", "decimal", "DECIMAL(10,2)", FALSE, Ptr("0.00"), FALSE,
                           "", "", "")
ColNote    == ColumnSchema("note", "varchar", "varchar(50)", TRUE, NilPtr, FALSE,
                           "utf8mb4", "utf8mb4_general_ci", "memo")
\* amount narrowed to an integer type, with an empty default in place of none
ColAmount2 == ColumnSchema("amount", "int", "int unsigned", FALSE, Ptr(""), FALSE, "", "", "")
\* note shortened, made NOT NULL, with a default and another comment
ColNote2   == ColumnSchema("note", "varchar", "varchar(20)", FALSE, Ptr("n/a"), FALSE,
                           "utf8mb4", "utf8mb4_general_ci", "remark")
\* note in another character set
ColNote3   == ColumnSchema("note", "varchar", "varchar(50)", TRUE, NilPtr, FALSE,
                           "latin1", "latin1_swedish_ci", "memo")
\* note with an empty default in place of none
ColNote4   == [ColNote EXCEPT !.DefaultValue = Ptr("")]
\* note as a generated column, and with another expression
ColNote5   == [ColNote EXCEPT !.Extra = "VIRTUAL GENERATED", !.GeneratedExpr = "upper(memo)"]
ColNote6   == [ColNote EXCEPT !.Extra = "VIRTUAL GENERATED", !.GeneratedExpr = "lower(memo)"]
ColLogId   == ColumnSchema("id", "int", "int", FALSE, NilPtr, FALSE, "", "", "")

IdxPrimary  == IndexSchema("PRIMARY", "PRIMARY", TRUE, TRUE, <<IndexColumn("id", 1, NilPtr)>>)
IdxUser     == IndexSchema("idx_user", "INDEX", FALSE, FALSE,
                           <<IndexColumn("user_id", 1, NilPtr)>>)
IdxUser2    == IndexSchema("idx_user", "UNIQUE", TRUE, FALSE,
                           <<IndexColumn("user_id", 1, NilPtr), IndexColumn("id", 2, NilPtr)>>)
IdxAmount   == IndexSchema("idx_amount", "INDEX", FALSE, FALSE,
                           <<IndexColumn("note", 1, Ptr(10))>>)

FkOrderUser  == ForeignKey("fk_order_user", <<"user_id">>, "users", <<"id">>, "CASCADE",
                           "RESTRICT")
FkOrderUser2 == ForeignKey("fk_order_user", <<"user_id">>, "users", <<"uid">>, "CASCADE",
                           "RESTRICT")
FkLogOrder   == ForeignKey("fk_log_order", <<"id">>, "orders", <<"id">>, "NO ACTION",
                           "NO ACTION")

FkLogOrder2  == ForeignKey("fk_log_order", <<"id">>, "orders", <<"id">>, "CASCADE",
                           "NO ACTION")

Orders1 == TableSchema("orders", "InnoDB", "utf8mb4", "utf8mb4_general_ci", "orders",
                       <<ColId, ColUserId, ColAmount, ColNote>>,
                       ByName({IdxPrimary, IdxUser}), ByName({FkOrderUser}),
                       <<"CREATE TABLE", "orders", "1">>)
\* user_id, its index and its foreign key gone; amount and note changed
Orders2 == TableSchema("orders", "InnoDB", "utf8mb4", "utf8mb4_general_ci", "order book",
                       <<ColId, ColNote2, ColAmount2>>,
                       ByName({IdxPrimary}), ByName({}),
                       <<"CREATE TABLE", "orders", "2">>)
\* another engine and character set; index and foreign key changed, an index more
Orders3 == TableSchema("orders", "MyISAM", "latin1", "latin1_swedish_ci", "orders",
                       <<ColId, ColUserId, ColAmount, ColNote3>>,
                       ByName({IdxPrimary, IdxUser2, IdxAmount}), ByName({FkOrderUser2}),
                       <<"CREATE TABLE", "orders", "3">>)
\* Orders1 when SHOW CREATE TABLE failed during extraction
Orders4 == [Orders1 EXCEPT !.CreateSQL = <<>>]

\* Orders1 with another table comment and other amount and note columns
Orders5 == [Orders1 EXCEPT !.Comment = "order book",
                           !.Columns = <<ColId, ColUserId, ColAmount2, ColNote2>>]
\* Orders1 in another character set, the table and its note column
Orders6 == [Orders1 EXCEPT !.Charset = "latin1", !.Collation = "latin1_swedish_ci",
                           !.Columns = <<ColId, ColUserId, ColAmount, ColNote3>>]

\* Orders1 with the other note columns
Orders7 == [Orders1 EXCEPT !.Columns = <<ColId, ColUserId, ColAmount, ColNote4>>]
Orders8 == [Orders1 EXCEPT !.Columns = <<ColId, ColUserId, ColAmount, ColNote5>>]
Orders9 == [Orders1 EXCEPT !.Columns = <<ColId, ColUserId, ColAmount, ColNote6>>]

TmpLog1 == TableSchema("tmp_log", "InnoDB", "utf8mb4", "utf8mb4_general_ci", "",
                       <<ColLogId, ColNote>>,
                       ByName({IdxPrimary}), ByName({FkLogOrder}),
                       <<"CREATE TABLE", "tmp_log", "1">>)
\* another comment, and SHOW CREATE TABLE failed during extraction
TmpLog2 == [TmpLog1 EXCEPT !.Comment = "scratch", !.CreateSQL = <<>>]

\* TmpLog1 with another ON DELETE rule on its foreign key
TmpLog3 == [TmpLog1 EXCEPT !.ForeignKeys = ByName({FkLogOrder2})]

ViewSchema(name, definition) == [Name |-> name, Definition |-> definition]
ProcedureSchema(name, definition) == [Name |-> name, Definition |-> definition]
FunctionSchema(name, definition, returns) ==
    [Name |-> name, Definition |-> definition, Returns |-> returns]
TriggerSchema(name, table, event, timing, statement) ==
    [Name |-> name, Table |-> table, Event |-> event, Timing |-> timing,
     Statement |-> statement]

View1 == ViewSchema("v_stats", "select count(*) from orders")
View2 == ViewSchema("v_stats", "select sum(amount) from orders")
Proc1 == ProcedureSchema("p_sync", "CREATE PROCEDURE p_sync() BEGIN END")
Proc2 == ProcedureSchema("p_sync", "CREATE PROCEDURE p_sync() BEGIN SELECT f_tax(1); END")
\* SHOW CREATE PROCEDURE failed during extraction
Proc0 == ProcedureSchema("p_sync", "")
Func1 == FunctionSchema("f_tax", "CREATE FUNCTION f_tax(x INT) RETURNS INT RETURN x", "int")
Func2 == FunctionSchema("f_tax", "CREATE FUNCTION f_tax(x INT) RETURNS INT RETURN x",
                        "bigint")
Trig1 == TriggerSchema("trg_audit", "orders", "INSERT", "AFTER", "SET @n = 1")
Trig2 == TriggerSchema("trg_audit", "tmp_log", "INSERT", "AFTER", "SET @n = 1")
Trig3 == TriggerSchema("trg_audit", "orders", "UPDATE", "BEFORE", "SET @n = 2")

DatabaseSchema(tables, views, procs, funcs, triggers) ==
    [Tables |-> ByName(tables), Views |-> ByName(views), Procedures |-> ByName(procs),
     Functions |-> ByName(funcs), Triggers |-> ByName(triggers)]

\* every choice of at most one variant of each table
TableSets ==
    {o \cup l : o \in {{}, {Orders1}, {Orders2}, {Orders3}, {Orders4}, {Orders5}, {Orders6}},
                l \in {{}, {TmpLog1}, {TmpLog2}}}

\* the views, procedures, functions and triggers that go with the tables
RoutineSets ==
    { <<{}, {}, {}, {}>>,
      <<{View1}, {Proc1}, {Func1}, {Trig1}>>,
      <<{View2}, {Proc2}, {Func2}, {Trig3}>>,
      <<{View1}, {Proc0}, {Func1}, {Trig2}>>,
      <<{View2}, {Proc2}, {Func1}, {}>>,
      <<{View1}, {}, {Func1}, {Trig1}>> }

IgnoreConfig(tables, columns, comments, charset, collation) ==
    [Tables |-> tables, Columns |-> columns, IgnoreComments |-> comments,
     IgnoreCharset |-> charset, IgnoreCollation |-> collation]

NoRules      == IgnoreConfig(<<>>, <<>>, FALSE, FALSE, FALSE)
TableRules   == IgnoreConfig(<<"tmp_*">>, <<>>, FALSE, FALSE, FALSE)
ColumnRules  == IgnoreConfig(<<>>, <<"orders.amount", "*.n?te">>, TRUE, FALSE, FALSE)
CharsetRules == IgnoreConfig(<<>>, <<"amount">>, FALSE, TRUE, TRUE)
RuleSets     == {NoRules, TableRules, ColumnRules, CharsetRules}

SchemaOf(t, r) == DatabaseSchema(t, r[1], r[2], r[3], r[4])

\* The runs of the pipeline: every pair of table sets under every rule with no
\* routine, and every pair of routine sets over three pairs of table sets.
Scenarios ==
         {[src |-> SchemaOf(ts, <<{}, {}, {}, {}>>), tgt |-> SchemaOf(tt, <<{}, {}, {}, {}>>),
           rules |-> r] : ts \in TableSets, tt \in TableSets, r \in RuleSets}
    \cup {[src |-> SchemaOf(tp[1], rs), tgt |-> SchemaOf(tp[2], rt), rules |-> r] :
             tp \in {<<{Orders1, TmpLog1}, {Orders1, TmpLog1}>>,
                     <<{Orders1}, {Orders3, TmpLog1}>>,
                     <<{Orders2, TmpLog2}, {}>>},
             rs \in RoutineSets, rt \in RoutineSets, r \in {NoRules, TableRules}}
    \cup {[src |-> SchemaOf(tp[1], <<{}, {}, {}, {}>>),
           tgt |-> SchemaOf(tp[2], <<{}, {}, {}, {}>>), rules |-> r] :
             tp \in {<<{Orders1, TmpLog3}, {Orders1, TmpLog1}>>,
                     <<{Orders3, TmpLog3}, {Orders1, TmpLog1}>>,
                     <<{TmpLog3}, {Orders1, TmpLog1}>>},
             r \in {NoRules, TableRules}}
    \cup {[src |-> SchemaOf({ts}, <<{}, {}, {}, rs>>),
           tgt |-> SchemaOf({tt}, <<{}, {}, {}, rt>>), rules |-> NoRules] :
             ts \in {Orders1, Orders7, Orders8, Orders9},
             tt \in {Orders1, Orders7, Orders8, Orders9},
             rs \in {{Trig1}, {Trig2}}, rt \in {{Trig1}, {Trig2}}}

-----------------------------------------------------------------------------
(* The pipeline: extract, Compare, Generate *)

EmptyDiff ==
    [TableDiffs |-> <<>>, ViewDiffs |-> <<>>, ProcDiffs |-> <<>>, FuncDiffs |-> <<>>,
     TriggerDiffs |-> <<>>,
     Statistics |-> [TablesAdded |-> 0, TablesRemoved |-> 0, TablesChanged |-> 0,
                     DangerCount |-> 0, WarningCount |-> 0, InfoCount |-> 0,
                     TotalDiffs |-> 0]]

\* NewValidator's result before Validate fills it
EmptyResult ==
    [Success |-> FALSE, ExecutionLog |-> <<>>, Errors |-> <<>>, Warnings |-> <<>>,
     SchemaMatch |-> FALSE, SchemaDiffs |-> <<>>, ContainerLogs |-> FALSE]

DefaultValidationOptions == [Cleanup |-> TRUE, CompareSchema |-> TRUE]

\* NewMainWindow: nothing held, only the compare button enabled
NewMainWindow ==
    [sourceSchema |-> NilPtr, targetSchema |-> NilPtr, schemaDiff |-> NilPtr,
     script |-> NilPtr, compareBtn |-> TRUE, generateBtn |-> FALSE, validateBtn |-> FALSE,
     comparing |-> "no", validating |-> NilPtr]

\* the window has not touched its Store
AuxIdle ==
    /\ store = [Projects |-> <<>>, ActiveProject |-> "", writer |-> FALSE, readers |-> 0]
    /\ callers = <<>>
    /\ bareAccess = {}
    /\ catalog = SchemaOf({}, <<{}, {}, {}, {}>>)
    /\ failing = {}
    /\ extraction = NilPtr
    /\ mw = NewMainWindow

\* no Validate run has begun
ValidatorIdle ==
    /\ pc = "idle" /\ opts = DefaultValidationOptions
    /\ ctxDone = FALSE /\ cancelledAt = -1
    /\ result = EmptyResult /\ retErr = "nil"
    /\ currentStep = 0 /\ totalSteps = 0 /\ successCount = 0 /\ failCount = 0
    /\ stmtIdx = 0 /\ polls = 0 /\ executed = <<>> /\ callbacks = <<>>
    /\ preFail = "none" /\ container = "none" /\ started = FALSE
    /\ teardownCalls = 0 /\ deferred = FALSE /\ sandboxTables = {}
    /\ compareRan = FALSE /\ extracted = <<>>

Init ==
    /\ \E sc \in Scenarios : source = sc.src /\ target = sc.tgt /\ rules = sc.rules
    /\ stage = "extracted"
    /\ schemaDiff = EmptyDiff
    /\ script = <<>>
    /\ scriptWarnings = <<>>
    /\ assessment = NilPtr
    /\ AuxIdle
    /\ ValidatorIdle

Iterations == [src : BOOLEAN, tgt : BOOLEAN, sub : BOOLEAN]

\* engine.Compare(sourceSchema, targetSchema)
DoCompare ==
    /\ stage = "extracted"
    /\ \E it \in Iterations : schemaDiff' = Compare(rules, source, target, it)
    /\ stage' = "compared"
    /\ UNCHANGED <<source, target, rules, script, scriptWarnings, assessment, auxVars,
                   valVars>>

\* generator.Generate(schemaDiff, options)
DoGenerate ==
    /\ stage = "compared"
    /\ \E rev \in BOOLEAN :
          \E out \in {Generate(schemaDiff, rev)} :
              script' = out.Statements /\ scriptWarnings' = out.Warnings
    /\ stage' = "generated"
    /\ UNCHANGED <<source, target, rules, schemaDiff, assessment, auxVars, valVars>>

Next == DoCompare \/ DoGenerate

Spec == Init /\ [][Next]_vars

-----------------------------------------------------------------------------
(* The risk assessment: extract, Compare, RiskAssessor.Assess *)

\* DataType and ColumnType of the types a column is given
ColumnTypes ==
    { <<"varchar", "varchar(5)">>, <<"varchar", "varchar(20)">>, <<"varchar", "varchar(50)">>,
      <<"tinyint", "tinyint(4)">>, <<"smallint", "smallint">>, <<"mediumint", "mediumint">>,
      <<"int", "int">>, <<"int", "int(11)">>, <<"int", "int unsigned">>,
      <<"bigint", "bigint">>, <<"bigint", "BIGINT">>, <<"decimal", "DECIMAL(10,2)">> }

\* orders with its amount column in the given type
OrdersTyped(ty) ==
    [Orders1 EXCEPT !.Columns = <<ColId, ColUserId,
                                  [ColAmount EXCEPT !.DataType = ty[1], !.ColumnType = ty[2]],
                                  ColNote>>]

\* orders rebuilt around a single int id, with no index and no foreign key
OrdersBare == [Orders1 EXCEPT !.Columns = <<ColLogId>>, !.Indexes = ByName({}),
                              !.ForeignKeys = ByName({})]

\* every pair of amount types, and four runs with heavier changes
RiskScenarios ==
         {[src |-> SchemaOf({OrdersTyped(a)}, <<{}, {}, {}, {}>>),
           tgt |-> SchemaOf({OrdersTyped(b)}, <<{}, {}, {}, {}>>)] : a, b \in ColumnTypes}
    \cup {[src |-> SchemaOf({}, <<{}, {}, {}, {}>>),
           tgt |-> SchemaOf({Orders1, TmpLog1}, <<{}, {}, {}, {}>>)],
          [src |-> SchemaOf({Orders1}, <<{View2}, {Proc2}, {Func2}, {Trig3}>>),
           tgt |-> SchemaOf({Orders3, TmpLog1}, <<{View1}, {Proc1}, {Func1}, {Trig1}>>)],
          [src |-> SchemaOf({Orders3, TmpLog1}, <<{}, {}, {}, {}>>),
           tgt |-> SchemaOf({Orders2}, <<{View1}, {Proc1}, {Func1}, {Trig1}>>)],
          [src |-> SchemaOf({OrdersBare}, <<{}, {}, {}, {}>>),
           tgt |-> SchemaOf({Orders1, TmpLog1}, <<{View1}, {Proc1}, {Func1}, {Trig1}>>)]}

InitRisk ==
    /\ \E sc \in RiskScenarios : source = sc.src /\ target = sc.tgt
    /\ rules = NoRules
    /\ stage = "extracted"
    /\ schemaDiff = EmptyDiff
    /\ script = <<>>
    /\ scriptWarnings = <<>>
    /\ assessment = NilPtr
    /\ AuxIdle
    /\ ValidatorIdle

\* NewRiskAssessor().Assess(schemaDiff)
DoAssess ==
    /\ stage = "compared"
    /\ assessment' = Ptr(Assess(schemaDiff))
    /\ stage' = "assessed"
    /\ UNCHANGED <<source, target, rules, schemaDiff, script, scriptWarnings, auxVars,
                   valVars>>

NextRisk == DoCompare \/ DoAssess

SpecRisk == InitRisk /\ [][NextRisk]_vars

-----------------------------------------------------------------------------
(* Properties of Generate *)

\* the phase of the dependency order a statement belongs to, 0 if none
PhaseOf(st) ==
    CASE st.ObjectType = "FOREIGN KEY" /\ st.Operation = "DROP"   -> 1
      [] st.ObjectType = "TRIGGER"     /\ st.Operation = "DROP"   -> 2
      [] st.ObjectType = "VIEW"        /\ st.Operation = "DROP"   -> 3
      [] st.ObjectType = "PROCEDURE"   /\ st.Operation = "DROP"   -> 4
      [] st.ObjectType = "FUNCTION"    /\ st.Operation = "DROP"   -> 5
      [] st.ObjectType = "TABLE"       /\ st.Operation = "DROP"   -> 6
      [] st.ObjectType = "COLUMN"                                 -> 7
      [] st.ObjectType = "INDEX"       /\ st.Operation = "DROP"   -> 7
      [] st.ObjectType = "TABLE"       /\ st.Operation = "ALTER"  -> 7
      [] st.ObjectType = "TABLE"       /\ st.Operation = "CREATE" -> 8
      [] st.ObjectType = "INDEX"       /\ st.Operation = "CREATE" -> 9
      [] st.ObjectType = "FOREIGN KEY" /\ st.Operation = "ADD"    -> 10
      [] st.ObjectType = "FUNCTION"    /\ st.Operation = "CREATE" -> 11
      [] st.ObjectType = "PROCEDURE"   /\ st.Operation = "CREATE" -> 12
      [] st.ObjectType = "VIEW"        /\ st.Operation \in {"CREATE", "ALTER"} -> 13
      [] st.ObjectType = "TRIGGER"     /\ st.Operation = "CREATE" -> 14
      [] OTHER -> 0

ScriptPhases == {PhaseOf(script[i]) : i \in 1..Len(script)}

C1_WitnessCreate ==
    stage = "generated" /\ {1, 6, 8} \subseteq ScriptPhases

-----------------------------------------------------------------------------
(* Properties of Compare *)

compared == stage # "extracted"

DiffIsEmpty(d) ==
    /\ d.TableDiffs = <<>> /\ d.ViewDiffs = <<>> /\ d.ProcDiffs = <<>>
    /\ d.FuncDiffs = <<>> /\ d.TriggerDiffs = <<>>

\* C8: Compare(A, A) is the empty diff under every IgnoreRules: no table, view,
\* procedure, function or trigger diff, HasDiff false and TotalDiffs 0.
C8_SelfCompareEmpty ==
    (compared /\ source = target) =>
        /\ DiffIsEmpty(schemaDiff)
        /\ ~HasDiff(schemaDiff)
        /\ schemaDiff.Statistics.TotalDiffs = 0

\* a schema with two tables, indexes with a prefix length, foreign keys and
\* routines, compared with itself
C8_Witness ==
    /\ compared /\ source = target
    /\ DOMAIN source.Tables = {"orders", "tmp_log"}
    /\ DOMAIN source.Triggers # {} /\ DOMAIN source.Functions # {}

\* a schema holding an index with a prefix length compared with itself
C8_WitnessPrefix ==
    /\ compared /\ source = target
    /\ "orders" \in DOMAIN source.Tables
    /\ "idx_amount" \in DOMAIN source.Tables["orders"].Indexes

\* The attributes of a column the engine compares, under the rules.
columnView(c, r) ==
    [ColumnType |-> c.ColumnType, IsNullable |-> c.IsNullable,
     Default |-> StrOfPtr(c.DefaultValue), IsAutoIncr |-> c.IsAutoIncr,
     Comment |-> IF r.IgnoreComments THEN "" ELSE c.Comment,
     Charset |-> IF r.IgnoreCharset THEN "" ELSE c.CharsetName,
     Collation |-> IF r.IgnoreCollation THEN "" ELSE c.CollationName]

\* the columns of a table that no ignoreColumnPatterns rule matches, by name
keptColumns(r, t) ==
    LET kept == {i \in 1..Len(t.Columns) : ~ignoredColumn(r, t.Name, t.Columns[i].Name)}
    IN  {<<t.Columns[i].Name, columnView(t.Columns[i], r)>> : i \in kept}

\* Two same-named tables are equivalent under the rules.
tableEquivalent(r, s, t) ==
    /\ s.Engine = t.Engine
    /\ r.IgnoreCharset \/ s.Charset = t.Charset
    /\ r.IgnoreCollation \/ s.Collation = t.Collation
    /\ r.IgnoreComments \/ s.Comment = t.Comment
    /\ keptColumns(r, s) = keptColumns(r, t)
    /\ s.Indexes = t.Indexes
    /\ s.ForeignKeys = t.ForeignKeys

viewEquivalent(s, t) == s.Definition = t.Definition
procEquivalent(s, t) == s.Definition = t.Definition
funcEquivalent(s, t) == s.Definition = t.Definition /\ s.Returns = t.Returns
triggerEquivalent(s, t) ==
    s.Statement = t.Statement /\ s.Event = t.Event /\ s.Timing = t.Timing

\* the <<name, DiffType>> pairs of a diff list
tableEntries(d) == [i \in 1..Len(d.TableDiffs) |->
                       <<d.TableDiffs[i].TableName, d.TableDiffs[i].DiffType>>]
objectEntries(l) == [i \in 1..Len(l) |-> <<l[i].Name, l[i].DiffType>>]

\* entries is the three-way partition of the names of src and tgt, the names
\* that Skip holds for left out
IsPartition(src, tgt, entries, Equivalent(_, _), Skip(_)) ==
    /\ \A i \in 1..Len(entries) : entries[i][1] \in DOMAIN src \cup DOMAIN tgt
    /\ \A n \in DOMAIN src \cup DOMAIN tgt :
          LET es == SelectSeq(entries, LAMBDA e : e[1] = n)
          IN  IF Skip(n) THEN es = <<>>
              ELSE IF n \notin DOMAIN tgt THEN es = <<<<n, DiffTypeAdded>>>>
              ELSE IF n \notin DOMAIN src THEN es = <<<<n, DiffTypeRemoved>>>>
              ELSE IF ~Equivalent(src[n], tgt[n]) THEN es = <<<<n, DiffTypeModified>>>>
              ELSE es = <<>>

NoSkip(n) == FALSE
IgnoredTable(n) == shouldIgnoreTable(rules, n)
TableEquivalentUnderRules(s, t) == tableEquivalent(rules, s, t)

RoutinesPartitioned ==
    /\ IsPartition(source.Views, target.Views, objectEntries(schemaDiff.ViewDiffs),
                   viewEquivalent, NoSkip)
    /\ IsPartition(source.Procedures, target.Procedures,
                   objectEntries(schemaDiff.ProcDiffs), procEquivalent, NoSkip)
    /\ IsPartition(source.Functions, target.Functions,
                   objectEntries(schemaDiff.FuncDiffs), funcEquivalent, NoSkip)
    /\ IsPartition(source.Triggers, target.Triggers,
                   objectEntries(schemaDiff.TriggerDiffs), triggerEquivalent, NoSkip)

\* C9, as stated: in each of the five classes every name of source or target
\* gets its one Added, Removed or Modified entry (none when the two records are
\* equivalent), no name more than one, and no entry names a foreign object.
C9_PartitionAllNames ==
    compared =>
        /\ IsPartition(source.Tables, target.Tables, tableEntries(schemaDiff),
                       TableEquivalentUnderRules, NoSkip)
        /\ RoutinesPartitioned

\* C9, amended: the same partition, where a table whose name matches an
\* ignoreTablePatterns glob gets no entry at all.
C9_PartitionUnlessIgnored ==
    compared =>
        /\ IsPartition(source.Tables, target.Tables, tableEntries(schemaDiff),
                       TableEquivalentUnderRules, IgnoredTable)
        /\ RoutinesPartitioned

\* a comparison with an Added, a Modified and a Removed entry, an equivalent pair
\* left out, and an ignored table on one side only
C9_Witness ==
    /\ compared
    /\ rules = TableRules
    /\ "tmp_log" \in DOMAIN target.Tables /\ "tmp_log" \notin DOMAIN source.Tables
    /\ \E i \in 1..Len(schemaDiff.TableDiffs) :
          schemaDiff.TableDiffs[i].DiffType = DiffTypeModified
    /\ \E i \in 1..Len(schemaDiff.ViewDiffs) :
          schemaDiff.ViewDiffs[i].DiffType = DiffTypeModified
    /\ \E i \in 1..Len(schemaDiff.ProcDiffs) :
          schemaDiff.ProcDiffs[i].DiffType = DiffTypeAdded
    /\ \E i \in 1..Len(schemaDiff.TriggerDiffs) :
          schemaDiff.TriggerDiffs[i].DiffType = DiffTypeRemoved
    /\ "f_tax" \in DOMAIN source.Functions \cap DOMAIN target.Functions
    /\ schemaDiff.FuncDiffs = <<>>

Restrict(f, K) == [k \in K |-> f[k]]

\* source is target with table t dropped and everything else equal
DropsTable(t) ==
    /\ t \in DOMAIN target.Tables
    /\ source = [target EXCEPT !.Tables = Restrict(target.Tables, DOMAIN target.Tables \ {t})]

removedEntriesFor(t) ==
    SelectSeq(schemaDiff.TableDiffs,
              LAMBDA d : d.TableName = t /\ d.DiffType = DiffTypeRemoved)

-----------------------------------------------------------------------------
(* Properties of the ignore rules *)

\* What filepath.Match gives for the patterns and the names of the model.
ignoredTableNames(r) == IF "tmp_*" \in Range(r.Tables) THEN {"tmp_log"} ELSE {}

ignoredColumnNames(r, table) ==
         (IF "orders.amount" \in Range(r.Columns) /\ table = "orders" THEN {"amount"} ELSE {})
    \cup (IF "*.n?te" \in Range(r.Columns) THEN {"note"} ELSE {})

\* a table with everything the rules ignore blanked out
tableUnderRules(r, t) ==
    [Engine |-> t.Engine,
     Charset |-> IF r.IgnoreCharset THEN "" ELSE t.Charset,
     Collation |-> IF r.IgnoreCollation THEN "" ELSE t.Collation,
     Comment |-> IF r.IgnoreComments THEN "" ELSE t.Comment,
     Columns |-> {<<t.Columns[i].Name, columnView(t.Columns[i], r)>> :
                    i \in {j \in 1..Len(t.Columns) :
                              t.Columns[j].Name \notin ignoredColumnNames(r, t.Name)}},
     Indexes |-> t.Indexes, ForeignKeys |-> t.ForeignKeys]

\* source and target differ in nothing but what the rules ignore
differOnlyInIgnored ==
    /\ DOMAIN source.Tables \ ignoredTableNames(rules)
          = DOMAIN target.Tables \ ignoredTableNames(rules)
    /\ \A n \in DOMAIN source.Tables \ ignoredTableNames(rules) :
          tableUnderRules(rules, source.Tables[n]) = tableUnderRules(rules, target.Tables[n])
    /\ source.Views = target.Views /\ source.Procedures = target.Procedures
    /\ source.Functions = target.Functions /\ source.Triggers = target.Triggers

\* C11: a table whose name matches an ignore-table pattern is in no table diff; a
\* column that a table.column pattern matches is in no ColumnDiff of that table;
\* and when source and target differ only in ignored attributes, ignored columns
\* or ignored tables, the diff is empty.
C11_IgnoreRulesFilter ==
    compared =>
        /\ \A i \in 1..Len(schemaDiff.TableDiffs) :
              /\ schemaDiff.TableDiffs[i].TableName \notin ignoredTableNames(rules)
              /\ \A j \in 1..Len(schemaDiff.TableDiffs[i].ColumnDiffs) :
                    schemaDiff.TableDiffs[i].ColumnDiffs[j].ColumnName
                        \notin ignoredColumnNames(rules, schemaDiff.TableDiffs[i].TableName)
        /\ differOnlyInIgnored => DiffIsEmpty(schemaDiff)

\* orders differs in its comment and in its two ignored columns only
C11_Witness ==
    /\ compared
    /\ rules = ColumnRules
    /\ "orders" \in DOMAIN source.Tables /\ "orders" \in DOMAIN target.Tables
    /\ source.Tables["orders"] = Orders5 /\ target.Tables["orders"] = Orders1
    /\ DiffIsEmpty(schemaDiff)

\* orders differs in its character set only, and the rules ignore it
C11_WitnessCharset ==
    /\ compared
    /\ rules = CharsetRules
    /\ "orders" \in DOMAIN source.Tables /\ "orders" \in DOMAIN target.Tables
    /\ source.Tables["orders"] = Orders6 /\ target.Tables["orders"] = Orders1
    /\ DiffIsEmpty(schemaDiff)

-----------------------------------------------------------------------------
(* Properties of the generated script *)

generated == stage = "generated"

\* the positions in the script of the statements of one object and operation
statementsOf(class, name, operation) ==
    {i \in 1..Len(script) : /\ script[i].ObjectType = class
                            /\ script[i].ObjectName = <<name>>
                            /\ script[i].Operation = operation}

\* one DROP and one CREATE of the object, the DROP first
droppedThenCreated(class, name) ==
    /\ Cardinality(statementsOf(class, name, "DROP")) = 1
    /\ Cardinality(statementsOf(class, name, "CREATE")) = 1
    /\ \A i \in statementsOf(class, name, "DROP") :
          \A j \in statementsOf(class, name, "CREATE") : i < j

modifiedNames(l) == {l[i].Name : i \in {j \in 1..Len(l) : l[j].DiffType = DiffTypeModified}}

\* C12: every Modified procedure, function or trigger has exactly one DROP and
\* exactly one CREATE in the script, the DROP before the CREATE; every Modified
\* view has exactly one CREATE OR REPLACE VIEW and no DROP VIEW.
C12_ModifiedDropThenCreate ==
    generated =>
        /\ \A n \in modifiedNames(schemaDiff.ProcDiffs) : droppedThenCreated("PROCEDURE", n)
        /\ \A n \in modifiedNames(schemaDiff.FuncDiffs) : droppedThenCreated("FUNCTION", n)
        /\ \A n \in modifiedNames(schemaDiff.TriggerDiffs) : droppedThenCreated("TRIGGER", n)
        /\ \A n \in modifiedNames(schemaDiff.ViewDiffs) :
              /\ Cardinality(statementsOf("VIEW", n, "ALTER")) = 1
              /\ \A i \in statementsOf("VIEW", n, "ALTER") :
                    script[i].SQL[1] = "CREATE OR REPLACE VIEW %s AS %s;"
              /\ statementsOf("VIEW", n, "DROP") = {}
              /\ statementsOf("VIEW", n, "CREATE") = {}

\* the tables of both schemas and their foreign keys that changed
changedForeignKeys ==
    {<<n, f>> \in (DOMAIN source.Tables \cap DOMAIN target.Tables) \X Range(NameOrder) :
        /\ f \in DOMAIN source.Tables[n].ForeignKeys
        /\ f \in DOMAIN target.Tables[n].ForeignKeys
        /\ source.Tables[n].ForeignKeys[f] # target.Tables[n].ForeignKeys[f]}

\* the foreign-key diffs Compare reports for foreign key f of table n
fkDiffsOf(n, f) ==
    {<<i, j>> \in (1..Len(schemaDiff.TableDiffs)) \X (1..2) :
        /\ schemaDiff.TableDiffs[i].TableName = n
        /\ j <= Len(schemaDiff.TableDiffs[i].FKeyDiffs)
        /\ schemaDiff.TableDiffs[i].FKeyDiffs[j].FKeyName = f}

fkStatements(n, f) ==
    {i \in 1..Len(script) : script[i].ObjectType = "FOREIGN KEY"
                            /\ script[i].ObjectName = <<n, f>>}

\* one Modified diff, one DROP FOREIGN KEY and one ADD CONSTRAINT, in this order
fkRebuilt(n, f) ==
    /\ Cardinality(fkDiffsOf(n, f)) = 1
    /\ \A x \in fkDiffsOf(n, f) :
          schemaDiff.TableDiffs[x[1]].FKeyDiffs[x[2]].DiffType = DiffTypeModified
    /\ Cardinality(fkStatements(n, f)) = 2
    /\ \E i, j \in fkStatements(n, f) :
          /\ i < j
          /\ script[i].SQL = <<"ALTER TABLE %s DROP FOREIGN KEY %s;", n, f>>
          /\ PhaseOf(script[i]) = 1
          /\ script[j].SQL[1]
                = "ALTER TABLE %s ADD CONSTRAINT %s FOREIGN KEY (%s) REFERENCES %s (%s)"
          /\ script[j].SQL[2] = n /\ script[j].SQL[3] = f
          /\ script[j].SQL = generateAddForeignKey(n, source.Tables[n].ForeignKeys[f]).SQL
          /\ PhaseOf(script[j]) = 10

noDropAfterAdd ==
    \A i, j \in 1..Len(script) :
        (PhaseOf(script[i]) = 10 /\ PhaseOf(script[j]) = 1) => j < i

\* C13 as stated: every changed foreign key of a table of both schemas has one
\* Modified foreign-key diff and exactly two statements, the DROP FOREIGN KEY in
\* the drop phase and the ADD CONSTRAINT in the add phase, and no DROP FOREIGN
\* KEY comes after an ADD CONSTRAINT.
C13_ForeignKeyRebuilt ==
    generated =>
        /\ \A x \in changedForeignKeys : fkRebuilt(x[1], x[2])
        /\ noDropAfterAdd

\* C13 amended: the same for the tables that match no ignore-table pattern; a
\* changed foreign key of an ignored table has no diff and no statement.
C13_ForeignKeyRebuiltUnlessIgnored ==
    generated =>
        /\ \A x \in changedForeignKeys :
              IF x[1] \in ignoredTableNames(rules)
              THEN fkDiffsOf(x[1], x[2]) = {} /\ fkStatements(x[1], x[2]) = {}
              ELSE fkRebuilt(x[1], x[2])
        /\ noDropAfterAdd

\* the foreign key of orders changed its referenced column, next to a removed
\* table with a foreign key of its own
C13_Witness ==
    /\ generated
    /\ <<"orders", "fk_order_user">> \in changedForeignKeys
    /\ fkRebuilt("orders", "fk_order_user")
    /\ \E i \in 1..Len(script) : script[i].ObjectName = <<"tmp_log", "fk_log_order">>

\* every trigger of a schema is defined on a table of that schema
triggersOnOwnTables(db) ==
    \A n \in DOMAIN db.Triggers : db.Triggers[n].Table \in DOMAIN db.Tables

tableStatements(operation) ==
    {script[i].ObjectName[1] :
        i \in {j \in 1..Len(script) : script[j].ObjectType = "TABLE"
                                      /\ script[j].Operation = operation}}

\* the tables that exist once the script has created its tables
tablesAfterCreatePhase ==
    (DOMAIN target.Tables \ tableStatements("DROP")) \cup tableStatements("CREATE")

createTriggerTables ==
    {script[i].SQL[5] :
        i \in {j \in 1..Len(script) : script[j].ObjectType = "TRIGGER"
                                      /\ script[j].Operation = "CREATE"}}

\* C14: every CREATE TRIGGER of the generated script names a table that exists
\* after the create-table phase: a target table the script does not drop, or a
\* table a CREATE TABLE of the script creates.
C14_TriggerTableExists ==
    (generated /\ triggersOnOwnTables(source) /\ triggersOnOwnTables(target))
        => createTriggerTables \subseteq tablesAfterCreatePhase

dropForeignKeyStatements ==
    {i \in 1..Len(script) : script[i].ObjectType = "FOREIGN KEY"
                            /\ script[i].Operation = "DROP"}

\* C15: every ALTER TABLE t DROP FOREIGN KEY f of the generated script names a
\* foreign key f that table t has in the target schema, and no foreign key is
\* dropped twice.
C15_DropsExistingForeignKeysOnce ==
    generated =>
        /\ \A i \in dropForeignKeyStatements :
              /\ script[i].SQL[1] = "ALTER TABLE %s DROP FOREIGN KEY %s;"
              /\ script[i].SQL[2] \in DOMAIN target.Tables
              /\ script[i].SQL[3] \in DOMAIN target.Tables[script[i].SQL[2]].ForeignKeys
        /\ \A i, j \in dropForeignKeyStatements :
              (script[i].SQL[2] = script[j].SQL[2] /\ script[i].SQL[3] = script[j].SQL[3])
                  => i = j

\* a script that drops the foreign key of a removed table and the changed
\* foreign key of a kept table
C15_Witness ==
    /\ generated
    /\ "tmp_log" \notin DOMAIN source.Tables
    /\ {script[i].ObjectName : i \in dropForeignKeyStatements}
          = {<<"tmp_log", "fk_log_order">>, <<"orders", "fk_order_user">>}
    /\ "orders" \in DOMAIN source.Tables

\* a script that drops a foreign key the source table no longer has
C15_WitnessRemoved ==
    /\ generated
    /\ \E i \in dropForeignKeyStatements :
          /\ script[i].SQL[2] \in DOMAIN source.Tables
          /\ script[i].SQL[3] \notin DOMAIN source.Tables[script[i].SQL[2]].ForeignKeys

\* the scripts Generate(Compare(..)) can return for the inputs of this run
possibleScripts ==
    {Generate(Compare(rules, source, target, it), rev).Statements :
        it \in Iterations, rev \in BOOLEAN}

\* C16: the generator output is deterministic: for the same source, target and
\* rules the script is one and the same sequence of statements, whatever order
\* the maps of the schemas are ranged over.
C16_DeterministicScript ==
    generated => possibleScripts = {script}

\* the tables agree on every attribute of TableSchema read from the catalog
\* (CreateSQL is the text of SHOW CREATE TABLE, not an attribute)
sameTable(a, b) ==
    /\ a.Engine = b.Engine /\ a.Charset = b.Charset /\ a.Collation = b.Collation
    /\ a.Comment = b.Comment
    /\ Range(a.Columns) = Range(b.Columns)
    /\ a.Indexes = b.Indexes
    /\ a.ForeignKeys = b.ForeignKeys

sameStructure(a, b) ==
    /\ DOMAIN a.Tables = DOMAIN b.Tables
    /\ \A n \in DOMAIN a.Tables : sameTable(a.Tables[n], b.Tables[n])
    /\ a.Views = b.Views /\ a.Procedures = b.Procedures
    /\ a.Functions = b.Functions /\ a.Triggers = b.Triggers

\* C26: with empty IgnoreRules an empty diff means the two schemas hold the same
\* object names in every class and every same-named pair agrees on every
\* structural attribute (default present or absent, extra, generated
\* expression and the table of a trigger included).
C26_EmptyDiffMeansSameStructure ==
    (stage # "extracted" /\ rules = NoRules /\ ~HasDiff(schemaDiff))
        => sameStructure(source, target)

\* the highest severity among the sub-diffs a table diff contains, Info when none
containedSeverity(td) ==
    Let({x.Severity : x \in Range(td.ColumnDiffs) \cup Range(td.IndexDiffs)
                              \cup Range(td.FKeyDiffs)},
        LAMBDA S : IF S = {} THEN SeverityInfo ELSE CHOOSE m \in S : \A x \in S : x <= m)

modifiedTableDiffs ==
    {td \in Range(schemaDiff.TableDiffs) : td.DiffType = DiffTypeModified}

\* the table diffs counted at a severity when each Modified table diff counts
\* at the severity of what it contains
countedAt(sev) ==
    Cardinality({td \in Range(schemaDiff.TableDiffs) :
                    (IF td.DiffType = DiffTypeModified THEN containedSeverity(td)
                     ELSE td.Severity) = sev})

\* C29: the severity of every Modified table diff is the highest severity among
\* the column, index and foreign key diffs it contains (Info when it contains
\* none), and the Danger and Warning counts of the statistics count the table
\* diffs at those severities; a column whose diff was filtered out by an ignore
\* rule raises neither.
C29_TableSeverityOfContainedDiffs ==
    stage # "extracted" =>
        /\ \A td \in modifiedTableDiffs : td.Severity = containedSeverity(td)
        /\ schemaDiff.Statistics.DangerCount = countedAt(SeverityDanger)
        /\ schemaDiff.Statistics.WarningCount = countedAt(SeverityWarning)

\* the names the diff reports as Added
addedNames(diffs) == {x.Name : x \in {y \in Range(diffs) : y.DiffType = DiffTypeAdded}}

addedTables ==
    {td.TableName : td \in {y \in Range(schemaDiff.TableDiffs) : y.DiffType = DiffTypeAdded}}

\* C30: for every table, procedure or function the diff reports as Added the
\* generated script contains exactly one CREATE statement, also when the
\* extractor captured no SHOW CREATE text for it.
C30_AddedObjectsAreCreated ==
    generated =>
        /\ \A n \in addedTables : Cardinality(statementsOf("TABLE", n, "CREATE")) = 1
        /\ \A n \in addedNames(schemaDiff.ProcDiffs) :
              Cardinality(statementsOf("PROCEDURE", n, "CREATE")) = 1
        /\ \A n \in addedNames(schemaDiff.FuncDiffs) :
              Cardinality(statementsOf("FUNCTION", n, "CREATE")) = 1

-----------------------------------------------------------------------------
(* Properties of the column risk and of the risk assessment, under SpecRisk *)

\* base type, parenthesised length (0: none) and integer rank (0: no integer
\* type) of the column types of the schemas, read off the type texts
typeFacts(t) ==
    CASE t = "varchar(5)"    -> [base |-> "varchar",   length |-> 5,  rank |-> 0]
      [] t = "varchar(20)"   -> [base |-> "varchar",   length |-> 20, rank |-> 0]
      [] t = "varchar(50)"   -> [base |-> "varchar",   length |-> 50, rank |-> 0]
      [] t = "tinyint(4)"    -> [base |-> "tinyint",   length |-> 4,  rank |-> 1]
      [] t = "smallint"      -> [base |-> "smallint",  length |-> 0,  rank |-> 2]
      [] t = "mediumint"     -> [base |-> "mediumint", length |-> 0,  rank |-> 3]
      [] t = "int"           -> [base |-> "int",       length |-> 0,  rank |-> 4]
      [] t = "int(11)"       -> [base |-> "int",       length |-> 11, rank |-> 4]
      [] t = "int unsigned"  -> [base |-> "int",       length |-> 0,  rank |-> 4]
      [] t = "bigint"        -> [base |-> "bigint",    length |-> 0,  rank |-> 5]
      [] t = "BIGINT"        -> [base |-> "bigint",    length |-> 0,  rank |-> 5]
      [] t = "DECIMAL(10,2)" -> [base |-> "decimal",   length |-> 10, rank |-> 0]

shorterLength(old, new) ==
    /\ typeFacts(old).length > 0 /\ typeFacts(new).length > 0
    /\ typeFacts(new).length < typeFacts(old).length

lowerRank(old, new) ==
    /\ typeFacts(old).rank > 0 /\ typeFacts(new).rank > 0
    /\ typeFacts(new).rank < typeFacts(old).rank

\* a change of base type that leaves the integer family or never was in it
lateralChange(old, new) ==
    /\ typeFacts(old).base # typeFacts(new).base
    /\ ~(typeFacts(old).rank > 0 /\ typeFacts(new).rank > 0)

\* the Modified column diffs of the diff that hold a type change
typeChangeDiffs ==
    UNION {{schemaDiff.TableDiffs[i].ColumnDiffs[j] :
               j \in {k \in 1..Len(schemaDiff.TableDiffs[i].ColumnDiffs) :
                        /\ schemaDiff.TableDiffs[i].ColumnDiffs[k].DiffType = DiffTypeModified
                        /\ \E c \in Range(schemaDiff.TableDiffs[i].ColumnDiffs[k].Changes) :
                              c.Property = "type"}} :
           i \in 1..Len(schemaDiff.TableDiffs)}

oldType(cd) == (CHOOSE c \in Range(cd.Changes) : c.Property = "type").OldValue
newType(cd) == (CHOOSE c \in Range(cd.Changes) : c.Property = "type").NewValue

\* C17: a type change is Danger exactly when it is a narrowing: a shorter
\* parenthesised length, or a lower rank in tinyint < smallint < mediumint < int
\* < bigint; a lateral change of base type is Warning and no narrowing, whatever
\* the lengths.
C17_NarrowingIsDanger ==
    \A cd \in typeChangeDiffs :
        /\ cd.Severity = SeverityDanger
              <=> \/ shorterLength(oldType(cd), newType(cd))
                       /\ ~lateralChange(oldType(cd), newType(cd))
                  \/ lowerRank(oldType(cd), newType(cd))
        /\ lateralChange(oldType(cd), newType(cd)) => cd.Severity = SeverityWarning

\* a larger length in the same base type, or a higher-ranked integer type
wideningChange(old, new) ==
    \/ /\ typeFacts(old).base = typeFacts(new).base
       /\ typeFacts(old).length > 0
       /\ typeFacts(new).length > typeFacts(old).length
    \/ /\ typeFacts(old).rank > 0
       /\ typeFacts(new).rank > typeFacts(old).rank

\* C18: every Modified column diff whose type change is a widening or a lateral
\* change has a severity of at least Warning, never Info.
C18_WideningIsWarning ==
    \A cd \in typeChangeDiffs :
        (wideningChange(oldType(cd), newType(cd)) \/ lateralChange(oldType(cd), newType(cd)))
            => cd.Severity >= SeverityWarning

\* the type of orders.amount in a schema, "" if the schema has no such column
amountType(db) ==
    IF "orders" \in DOMAIN db.Tables /\ "amount" \in colNames(db.Tables["orders"].Columns)
    THEN colByName(db.Tables["orders"].Columns, "amount").ColumnType
    ELSE ""

decimalToBigint ==
    /\ stage = "assessed"
    /\ amountType(target) = "DECIMAL(10,2)"
    /\ amountType(source) = "BIGINT"

amountDiffs ==
    UNION {{schemaDiff.TableDiffs[i].ColumnDiffs[j] :
               j \in {k \in 1..Len(schemaDiff.TableDiffs[i].ColumnDiffs) :
                        schemaDiff.TableDiffs[i].ColumnDiffs[k].ColumnName = "amount"}} :
           i \in {k \in 1..Len(schemaDiff.TableDiffs) :
                    schemaDiff.TableDiffs[k].TableName = "orders"}}

\* C19: with DECIMAL(10,2) in the target and BIGINT in the source the column has
\* one Modified diff that holds the type change from DECIMAL(10,2) to BIGINT, its
\* severity is Danger, and the assessment holds a warning for the column.
C19_DecimalToBigintIsDanger ==
    decimalToBigint =>
        /\ Cardinality(amountDiffs) = 1
        /\ \A cd \in amountDiffs :
              /\ cd.DiffType = DiffTypeModified
              /\ PropertyDiff("type", "DECIMAL(10,2)", "BIGINT") \in Range(cd.Changes)
              /\ cd.Severity = SeverityDanger
        /\ \E w \in Range(assessment[1].Warnings) : w[2] = "orders" /\ w[3] = "amount"

\* C20: whatever the diff holds, Assess returns a score within 0..100 and one
\* of the levels Low, Medium and High.
C20_ScoreWithinBounds ==
    stage = "assessed" =>
        /\ assessment[1].Score \in 0..100
        /\ assessment[1].Level \in {RiskLow, RiskMedium, RiskHigh}

\* the sum of a list of weights
sumOf(ws) ==
    LET f[i \in 0..Len(ws)] == IF i = 0 THEN 0 ELSE f[i - 1] + ws[i]
    IN  f[Len(ws)]

hasTypeChange(cd) == \E c \in Range(cd.Changes) : c.Property = "type"

\* the weight of one column diff, with the type change taken as Compare
\* classified it: Danger is a narrowing, another base type a lateral change
columnWeight(cd) ==
    IF cd.DiffType = DiffTypeRemoved THEN 20
    ELSE IF cd.DiffType # DiffTypeModified THEN 0
    ELSE   (IF hasTypeChange(cd) /\ cd.Severity = SeverityDanger THEN 15
            ELSE IF hasTypeChange(cd)
                    /\ typeFacts(oldType(cd)).base # typeFacts(newType(cd)).base
                 THEN 10 ELSE 0)
         + (IF PropertyDiff("nullable", "NULL", "NOT NULL") \in Range(cd.Changes)
            THEN 10 ELSE 0)

indexWeight(id) ==
    IF id.DiffType = DiffTypeRemoved /\ id.OldIndex # NilPtr
    THEN (IF id.OldIndex[1].IsPrimary THEN 20
          ELSE IF id.OldIndex[1].IsUnique THEN 10 ELSE 0)
    ELSE 0

tableWeight(td) ==
    IF td.DiffType = DiffTypeRemoved THEN 30
    ELSE IF td.DiffType # DiffTypeModified THEN 0
    ELSE   sumOf([i \in 1..Len(td.ColumnDiffs) |-> columnWeight(td.ColumnDiffs[i])])
         + sumOf([i \in 1..Len(td.IndexDiffs) |-> indexWeight(td.IndexDiffs[i])])
         + sumOf([i \in 1..Len(td.FKeyDiffs) |->
                    IF td.FKeyDiffs[i].DiffType = DiffTypeAdded THEN 5 ELSE 0])

\* the weights the claim lists
listedWeights(d) ==
      sumOf([i \in 1..Len(d.TableDiffs) |-> tableWeight(d.TableDiffs[i])])
    + sumOf([i \in 1..Len(d.TriggerDiffs) |->
               IF d.TriggerDiffs[i].DiffType = DiffTypeRemoved THEN 10 ELSE 0])
    + sumOf([i \in 1..Len(d.ProcDiffs) |->
               IF d.ProcDiffs[i].DiffType = DiffTypeModified THEN 5 ELSE 0])

\* the weights the claim does not list: dropped view 5, modified view 3,
\* dropped procedure 10, modified trigger 8
unlistedWeights(d) ==
      sumOf([i \in 1..Len(d.ViewDiffs) |->
               IF d.ViewDiffs[i].DiffType = DiffTypeRemoved THEN 5
               ELSE IF d.ViewDiffs[i].DiffType = DiffTypeModified THEN 3 ELSE 0])
    + sumOf([i \in 1..Len(d.ProcDiffs) |->
               IF d.ProcDiffs[i].DiffType = DiffTypeRemoved THEN 10 ELSE 0])
    + sumOf([i \in 1..Len(d.TriggerDiffs) |->
               IF d.TriggerDiffs[i].DiffType = DiffTypeModified THEN 8 ELSE 0])

levelOf(score) ==
    IF score >= 70 THEN RiskHigh ELSE IF score >= 40 THEN RiskMedium ELSE RiskLow

C21_WitnessLateral ==
    /\ stage = "assessed"
    /\ assessment[1].Score = 10
    /\ assessment[1].Level = RiskLow
    /\ \E cd \in typeChangeDiffs : cd.Severity = SeverityWarning

\* Danger changes to add to a diff: a dropped column and a narrowed column
dangerColumnDiffs ==
    {[ColumnName |-> "memo", DiffType |-> DiffTypeRemoved, Severity |-> SeverityDanger,
      OldColumn |-> Ptr(ColNote), NewColumn |-> NilPtr, Changes |-> <<>>],
     [ColumnName |-> "remark", DiffType |-> DiffTypeModified, Severity |-> SeverityDanger,
      OldColumn |-> Ptr(ColNote), NewColumn |-> Ptr(ColNote2),
      Changes |-> <<PropertyDiff("type", "varchar(50)", "varchar(20)")>>]}

\* a dropped table, and a changed table holding one Danger column change
dangerTableDiffs ==
    {removedTableDiff("archive", TmpLog1)}
    \cup {[TableName |-> "archive", DiffType |-> DiffTypeModified,
           Severity |-> SeverityDanger, OldTable |-> Ptr(TmpLog1), NewTable |-> Ptr(TmpLog1),
           ColumnDiffs |-> <<cd>>, IndexDiffs |-> <<>>, FKeyDiffs |-> <<>>,
           TableProps |-> <<>>] : cd \in dangerColumnDiffs}

\* d with table diff td put after its first k table diffs
withTableDiff(d, k, td) ==
    [d EXCEPT !.TableDiffs = SubSeq(d.TableDiffs, 1, k) \o <<td>>
                             \o SubSeq(d.TableDiffs, k + 1, Len(d.TableDiffs))]

\* d with column diff cd appended to its i-th table diff
withColumnDiff(d, i, cd) ==
    [d EXCEPT !.TableDiffs[i].ColumnDiffs = Append(@, cd)]

modifiedTables(d) ==
    {i \in 1..Len(d.TableDiffs) : d.TableDiffs[i].DiffType = DiffTypeModified}

\* C22: adding a Danger change (dropped table, dropped column, narrowed column
\* type) to a diff never lowers its score, and a diff that holds a dropped table
\* scores at least 30.
C22_ScoreMonotonic ==
    stage = "assessed" =>
        /\ \A td \in dangerTableDiffs, k \in 0..Len(schemaDiff.TableDiffs) :
              Assess(withTableDiff(schemaDiff, k, td)).Score >= assessment[1].Score
        /\ \A cd \in dangerColumnDiffs, i \in modifiedTables(schemaDiff) :
              Assess(withColumnDiff(schemaDiff, i, cd)).Score >= assessment[1].Score
        /\ (\E i \in 1..Len(schemaDiff.TableDiffs) :
               schemaDiff.TableDiffs[i].DiffType = DiffTypeRemoved)
              => assessment[1].Score >= 30

\* a diff with a dropped table and a changed table, where each added Danger
\* change raises the score by its weight
C22_Witness ==
    /\ stage = "assessed"
    /\ modifiedTables(schemaDiff) # {}
    /\ \E i \in 1..Len(schemaDiff.TableDiffs) :
          schemaDiff.TableDiffs[i].DiffType = DiffTypeRemoved
    /\ assessment[1].Score >= 30
    /\ \A i \in modifiedTables(schemaDiff) :
          {Assess(withColumnDiff(schemaDiff, i, cd)).Score - assessment[1].Score :
              cd \in dangerColumnDiffs} = {15, 20}
    /\ Assess(withTableDiff(schemaDiff, 0, removedTableDiff("archive", TmpLog1))).Score
          = assessment[1].Score + 30

-----------------------------------------------------------------------------
(* internal/docker: one run of Validator.Validate against the sandbox *)

\* ticks of WaitForMySQL before the deadline has passed for certain
MaxPolls == 2

ExecutionLogEntry(step, total, message, sql, success) ==
    [Step |-> step, Total |-> total, Message |-> message, SQL |-> sql, Success |-> success]

logStep(res, step, total, message, sql, success) ==
    [res EXCEPT !.ExecutionLog =
        Append(@, ExecutionLogEntry(step, total, message, sql, success))]

Callback(step, total, failed) == [Step |-> step, Total |-> total, Failed |-> failed]

\* What the sandbox MySQL makes of a statement, by the table it names.
AlterFormats ==
    {"ALTER TABLE %s DROP FOREIGN KEY %s;", "ALTER TABLE %s DROP COLUMN %s;",
     "ALTER TABLE %s ADD COLUMN %s", "ALTER TABLE %s MODIFY COLUMN %s",
     "ALTER TABLE %s ADD PRIMARY KEY (%s);", "ALTER TABLE %s ADD %s %s (%s);",
     "ALTER TABLE %s DROP PRIMARY KEY;", "ALTER TABLE %s DROP INDEX %s;",
     "ALTER TABLE %s ADD CONSTRAINT %s FOREIGN KEY (%s) REFERENCES %s (%s)",
     "ALTER TABLE %s ENGINE = %s;", "ALTER TABLE %s CONVERT TO CHARACTER SET %s;",
     "ALTER TABLE %s COMMENT = %s;"}

\* the server refuses the statement whatever else holds: the table to create
\* exists, or the table to alter or to put a trigger on does not
mustFail(sql, tables) ==
    \/ sql[1] = "CREATE TABLE" /\ sql[2] \in tables
    \/ sql[1] \in AlterFormats /\ sql[2] \notin tables
    \/ sql[1] = "CREATE TRIGGER %s %s %s ON %s FOR EACH ROW %s;" /\ sql[5] \notin tables

\* the tables of the sandbox after the statement ran
applySQL(sql, tables) ==
    IF sql[1] = "CREATE TABLE" THEN tables \cup {sql[2]}
    ELSE IF sql[1] = "DROP TABLE IF EXISTS %s;" THEN tables \ {sql[2]}
    ELSE tables

\* RemoveContainer: docker stop, then docker rm -f, both under ctx.  A command
\* under a cancelled context is not started, so nothing happens to the container.
containerAfterRemove(done, c) == IF done THEN c ELSE "removed"

\* A final verdict that no longer looks at the failures.
finalSuccessAlways(fc) == TRUE

\* result.Success at the end of Validate
finalSuccess(fc) == fc = 0

\* A coarse comparison that only looks for missing tables.
schemaMatchesNamesOnly(current, expected) == expected \subseteq current

\* compareSchemaInContainer's verdict: no count mismatch and no missing table
schemaMatches(current, expected) ==
    /\ Cardinality(current) = Cardinality(expected)
    /\ \A t \in expected : t \in current

\* compareSchemaInContainer's list of differences
schemaDiffsOf(current, expected, rev) ==
       (IF Cardinality(current) # Cardinality(expected)
        THEN <<<<"table count: expected %d, actual %d", ToString(Cardinality(expected)),
                 ToString(Cardinality(current))>>>>
        ELSE <<>>)
    \o ConcatMap(LAMBDA t : IF t \notin current THEN <<<<"missing table: %s", t>>>> ELSE <<>>,
                 KeySeq(expected, rev))

\* the tables importSchema creates: those whose CREATE TABLE text was captured
importedTables(schema) ==
    {n \in DOMAIN schema.Tables : schema.Tables[n].CreateSQL # <<>>}

\* importSchema has a routine or trigger to send after the batch
hasRoutines(schema) ==
    \/ \E n \in DOMAIN schema.Procedures : schema.Procedures[n].Definition # ""
    \/ \E n \in DOMAIN schema.Functions : schema.Functions[n].Definition # ""
    \/ DOMAIN schema.Triggers # {}

\* The caller cancels the context.
Cancel ==
    /\ pc \notin {"idle", "done"}
    /\ ~ctxDone
    /\ ctxDone' = TRUE
    /\ cancelledAt' = IF pc = "replay" THEN stmtIdx ELSE cancelledAt
    /\ UNCHANGED <<pipeVars, pc, opts, result, retErr, currentStep, totalSteps, successCount,
                   failCount, stmtIdx, polls, executed, callbacks, preFail, container,
                   started, teardownCalls, deferred, sandboxTables, compareRan, extracted>>

\* Step 1: docker version.
CheckDocker ==
    /\ pc = "start"
    /\ totalSteps' = 4 + Len(script)
    /\ currentStep' = 1
    /\ callbacks' = Append(callbacks, Callback(1, totalSteps', FALSE))
    /\ \E ok \in BOOLEAN :
          /\ ok => ~ctxDone
          /\ IF ok
             THEN /\ result' = logStep(result, 1, totalSteps', "check docker", <<>>, TRUE)
                  /\ pc' = "create"
                  /\ UNCHANGED <<retErr, preFail>>
             ELSE /\ result' = [logStep(logStep(result, 1, totalSteps', "check docker", <<>>,
                                                TRUE),
                                        1, totalSteps', "docker check failed", <<>>, FALSE)
                                EXCEPT !.Errors = Append(@, <<"docker unavailable">>)]
                  /\ retErr' = "docker unavailable"
                  /\ preFail' = "docker"
                  /\ pc' = "done"
    /\ UNCHANGED <<pipeVars, opts, ctxDone, cancelledAt, successCount, failCount, stmtIdx,
                   polls, executed, container, started, teardownCalls, deferred,
                   sandboxTables, compareRan, extracted>>

\* Step 2: CreateContainer (docker run, then docker port), and the deferred
\* RemoveContainer that Validate registers when Cleanup is set.
CreateContainer ==
    /\ pc = "create"
    /\ currentStep' = currentStep + 1
    /\ callbacks' = Append(callbacks, Callback(currentStep', totalSteps, FALSE))
    /\ \E outcome \in {"ok", "run failed", "port failed"} :
          /\ outcome = "ok" => ~ctxDone
          /\ IF outcome = "ok"
             THEN /\ result' = logStep(result, currentStep', totalSteps, "create container",
                                       <<>>, TRUE)
                  /\ container' = "running"
                  /\ started' = TRUE
                  /\ deferred' = opts.Cleanup
                  /\ pc' = "wait"
                  /\ UNCHANGED <<retErr, preFail, teardownCalls>>
             ELSE /\ result' = [logStep(logStep(result, currentStep', totalSteps,
                                                "create container", <<>>, TRUE),
                                        currentStep', totalSteps, "create container failed",
                                        <<>>, FALSE)
                                EXCEPT !.Errors = Append(@, <<"create container failed">>)]
                  /\ retErr' = "create container failed"
                  /\ preFail' = "create"
                  /\ pc' = "done"
                  /\ IF outcome = "port failed" /\ ~ctxDone
                     THEN /\ started' = TRUE
                          /\ teardownCalls' = teardownCalls + 1
                          /\ container' = containerAfterRemove(ctxDone, "running")
                     ELSE UNCHANGED <<started, teardownCalls, container>>
                  /\ UNCHANGED deferred
    /\ UNCHANGED <<pipeVars, opts, ctxDone, cancelledAt, totalSteps, successCount, failCount,
                   stmtIdx, polls, executed, sandboxTables, compareRan, extracted>>

\* A failed pre-replay step that Validate reports without an error.
failStepNilError(message, err, step) ==
    /\ result' = [logStep(result, currentStep, totalSteps, message, <<>>, FALSE)
                  EXCEPT !.Errors = Append(@, <<message>>)]
    /\ retErr' = "nil"
    /\ preFail' = step
    /\ pc' = "done"
    /\ IF deferred
       THEN /\ teardownCalls' = teardownCalls + 1
            /\ container' = containerAfterRemove(ctxDone, container)
       ELSE UNCHANGED <<teardownCalls, container>>

\* A pre-replay step failed after the container was created: the failed log
\* entry, the entry in Errors, and Validate's return with its deferred call.
failStep(message, err, step) ==
    /\ result' = [logStep(result, currentStep, totalSteps, message, <<>>, FALSE)
                  EXCEPT !.Errors = Append(@, <<message>>)]
    /\ retErr' = err
    /\ preFail' = step
    /\ pc' = "done"
    /\ IF deferred
       THEN /\ teardownCalls' = teardownCalls + 1
            /\ container' = containerAfterRemove(ctxDone, container)
       ELSE UNCHANGED <<teardownCalls, container>>

\* Step 3, first half: the log entry and the callback before WaitForMySQL.
BeginWait ==
    /\ pc = "wait"
    /\ currentStep' = currentStep + 1
    /\ result' = logStep(result, currentStep', totalSteps, "wait for mysql", <<>>, TRUE)
    /\ callbacks' = Append(callbacks, Callback(currentStep', totalSteps, FALSE))
    /\ pc' = "waiting"
    /\ UNCHANGED <<pipeVars, opts, ctxDone, cancelledAt, retErr, totalSteps, successCount,
                   failCount, stmtIdx, polls, executed, preFail, container, started,
                   teardownCalls, deferred, sandboxTables, compareRan, extracted>>

\* WaitForMySQL's select: the context is done, or the ticker fired and the
\* deadline has passed, or the ping answered, or the loop goes round.
WaitForMySQL ==
    /\ pc = "waiting"
    /\ \E branch \in {"ctx done", "timeout", "ready", "again"} :
          /\ branch = "ctx done" => ctxDone
          /\ branch = "ready" => ~ctxDone
          /\ branch = "again" => polls < MaxPolls
          /\ CASE branch = "ctx done" ->
                    /\ failStep("mysql start timed out", "context canceled", "wait")
                    /\ UNCHANGED polls
               [] branch = "timeout" ->
                    /\ failStep("mysql start timed out", "wait timed out", "wait")
                    /\ UNCHANGED polls
               [] branch = "ready" ->
                    /\ pc' = "import"
                    /\ UNCHANGED <<result, retErr, preFail, teardownCalls, container, polls>>
               [] branch = "again" ->
                    /\ polls' = polls + 1
                    /\ UNCHANGED <<pc, result, retErr, preFail, teardownCalls, container>>
    /\ UNCHANGED <<pipeVars, opts, ctxDone, cancelledAt, currentStep, totalSteps,
                   successCount, failCount, stmtIdx, executed, callbacks, started, deferred,
                   sandboxTables, compareRan, extracted>>

\* Step 4, first half: importSchema's batch of CREATE TABLE and CREATE VIEW.
ImportBatch ==
    /\ pc = "import"
    /\ currentStep' = currentStep + 1
    /\ callbacks' = Append(callbacks, Callback(currentStep', totalSteps, FALSE))
    /\ \E ok \in BOOLEAN :
          /\ ok => ~ctxDone
          /\ IF ok
             THEN /\ result' = logStep(result, currentStep', totalSteps, "import schema",
                                       <<>>, TRUE)
                  /\ sandboxTables' = importedTables(target)
                  /\ pc' = "routines"
                  /\ UNCHANGED <<retErr, preFail, teardownCalls, container>>
             ELSE /\ result' = [logStep(logStep(result, currentStep', totalSteps,
                                                "import schema", <<>>, TRUE),
                                        currentStep', totalSteps, "import failed", <<>>, FALSE)
                                EXCEPT !.Errors = Append(@, <<"import failed">>)]
                  /\ retErr' = "import failed"
                  /\ preFail' = "import"
                  /\ pc' = "done"
                  /\ IF deferred
                     THEN /\ teardownCalls' = teardownCalls + 1
                          /\ container' = containerAfterRemove(ctxDone, container)
                     ELSE UNCHANGED <<teardownCalls, container>>
                  /\ UNCHANGED sandboxTables
    /\ UNCHANGED <<pipeVars, opts, ctxDone, cancelledAt, totalSteps, successCount, failCount,
                   stmtIdx, polls, executed, started, deferred, compareRan, extracted>>

\* Step 4, second half: importSchema's procedures, functions and triggers, each
\* sent under the delimiter.
ImportRoutines ==
    /\ pc = "routines"
    /\ \E ok \in BOOLEAN :
          /\ ok => (~ctxDone \/ ~hasRoutines(target))
          /\ ~ok => hasRoutines(target)
          /\ IF ok
             THEN /\ pc' = IF Len(script) = 0 THEN "compare" ELSE "replay"
                  /\ UNCHANGED <<result, retErr, preFail, teardownCalls, container>>
             ELSE failStep("import failed", "import failed", "import")
    /\ UNCHANGED <<pipeVars, opts, ctxDone, cancelledAt, currentStep, totalSteps,
                   successCount, failCount, stmtIdx, polls, executed, callbacks, started,
                   deferred, sandboxTables, compareRan, extracted>>

\* Step 5: one round of the replay loop.
ExecuteStatement ==
    /\ pc = "replay"
    /\ LET i     == stmtIdx + 1
           stmt  == script[i]
           delim == stmt.ObjectType \in {"TRIGGER", "PROCEDURE", "FUNCTION"}
       IN  /\ currentStep' = currentStep + 1
           /\ stmtIdx' = i
           /\ pc' = IF i = Len(script) THEN "compare" ELSE "replay"
           /\ \E ok \in BOOLEAN :
                 /\ ok => (~ctxDone /\ ~mustFail(stmt.SQL, sandboxTables))
                 /\ executed' = Append(executed,
                                       [Stmt |-> i, Delimiter |-> delim, Success |-> ok])
                 /\ IF ok
                    THEN /\ successCount' = successCount + 1
                         /\ result' = logStep(result, currentStep', totalSteps, "executed",
                                              stmt.SQL, TRUE)
                         /\ callbacks' = Append(callbacks,
                                                Callback(currentStep', totalSteps, FALSE))
                         /\ sandboxTables' = applySQL(stmt.SQL, sandboxTables)
                         /\ UNCHANGED failCount
                    ELSE /\ failCount' = failCount + 1
                         /\ result' = [logStep(result, currentStep', totalSteps, "execute",
                                               stmt.SQL, FALSE)
                                       EXCEPT !.Errors =
                                           Append(@, <<"statement %d failed", ToString(i)>>)]
                         /\ callbacks' = callbacks
                                         \o <<Callback(currentStep', totalSteps, FALSE),
                                              Callback(currentStep', totalSteps, TRUE)>>
                         /\ UNCHANGED <<successCount, sandboxTables>>
    /\ UNCHANGED <<pipeVars, opts, ctxDone, cancelledAt, retErr, totalSteps, polls, preFail,
                   container, started, teardownCalls, deferred, compareRan, extracted>>

\* Step 6: the convergence check, when it is enabled and nothing failed.
CompareSchemaStep ==
    /\ pc = "compare"
    /\ pc' = "finish"
    /\ IF opts.CompareSchema /\ failCount = 0
       THEN /\ currentStep' = currentStep + 1
            /\ callbacks' = Append(callbacks, Callback(currentStep', totalSteps, FALSE))
            /\ compareRan' = TRUE
            /\ \E extractOK \in BOOLEAN, rev \in BOOLEAN :
                  /\ extractOK => ~ctxDone
                  /\ extracted' = IF extractOK THEN <<sandboxTables>> ELSE <<>>
                  /\ LET match == extractOK /\ schemaMatches(sandboxTables, DOMAIN source.Tables)
                         diffs == IF extractOK
                                  THEN schemaDiffsOf(sandboxTables, DOMAIN source.Tables, rev)
                                  ELSE <<<<"cannot read the sandbox schema">>>>
                         logged == logStep(result, currentStep', totalSteps, "compare schema",
                                           <<>>, TRUE)
                     IN  result' = [logged EXCEPT
                                       !.SchemaMatch = match,
                                       !.SchemaDiffs = diffs,
                                       !.Warnings = IF match THEN @
                                                    ELSE Append(@, <<"schema still differs">>)]
       ELSE UNCHANGED <<currentStep, callbacks, compareRan, extracted, result>>
    /\ UNCHANGED <<pipeVars, opts, ctxDone, cancelledAt, retErr, totalSteps, successCount,
                   failCount, stmtIdx, polls, executed, preFail, container, started,
                   teardownCalls, deferred, sandboxTables>>

\* The container log, the verdict, the return, and the deferred RemoveContainer.
Finish ==
    /\ pc = "finish"
    /\ result' = [result EXCEPT !.ContainerLogs = ~ctxDone,
                                !.Success = finalSuccess(failCount)]
    /\ pc' = "done"
    /\ IF deferred
       THEN /\ teardownCalls' = teardownCalls + 1
            /\ container' = containerAfterRemove(ctxDone, container)
       ELSE UNCHANGED <<teardownCalls, container>>
    /\ UNCHANGED <<pipeVars, opts, ctxDone, cancelledAt, retErr, currentStep, totalSteps,
                   successCount, failCount, stmtIdx, polls, executed, callbacks, preFail,
                   started, deferred, sandboxTables, compareRan, extracted>>

\* The runs of Validate: a pipeline result and the caller's options.
ValidateScenarios ==
    {[src |-> SchemaOf(x[1], x[3]), tgt |-> SchemaOf(x[2], x[4]), rules |-> x[5]] :
        x \in {<<{Orders1, TmpLog1}, {Orders1}, <<{}, {}, {}, {}>>, <<{}, {}, {}, {}>>, NoRules>>,
               <<{Orders1}, {Orders1, TmpLog1}, <<{}, {}, {}, {}>>, <<{}, {}, {}, {}>>,
                 NoRules>>,
               <<{Orders1, TmpLog2}, {Orders1}, <<{}, {}, {}, {}>>, <<{}, {}, {}, {}>>,
                 NoRules>>,
               <<{Orders1, TmpLog1}, {Orders1}, <<{}, {}, {}, {}>>, <<{}, {}, {}, {}>>,
                 TableRules>>,
               <<{Orders1}, {Orders1, TmpLog1}, <<{}, {}, {}, {}>>, <<{}, {}, {}, {}>>,
                 TableRules>>,
               <<{Orders1}, {Orders4}, <<{}, {}, {}, {}>>, <<{}, {}, {}, {}>>, NoRules>>,
               <<{Orders2}, {Orders1}, <<{}, {}, {}, {}>>, <<{}, {}, {}, {}>>, ColumnRules>>,
               <<{Orders1}, {Orders1}, <<{View1}, {Proc1}, {Func1}, {Trig1}>>,
                 <<{View2}, {}, {Func1}, {}>>, NoRules>>}}

InitValidate ==
    /\ \E sc \in ValidateScenarios, it \in Iterations, rev \in BOOLEAN :
          /\ source = sc.src /\ target = sc.tgt /\ rules = sc.rules
          /\ schemaDiff = Compare(sc.rules, sc.src, sc.tgt, it)
          /\ script = Generate(schemaDiff, rev).Statements
          /\ scriptWarnings = Generate(schemaDiff, rev).Warnings
    /\ stage = "generated"
    /\ assessment = NilPtr
    /\ AuxIdle
    /\ pc = "start"
    /\ opts \in [Cleanup : BOOLEAN, CompareSchema : BOOLEAN]
    /\ ctxDone = FALSE /\ cancelledAt = -1
    /\ result = EmptyResult /\ retErr = "nil"
    /\ currentStep = 0 /\ totalSteps = 0 /\ successCount = 0 /\ failCount = 0
    /\ stmtIdx = 0 /\ polls = 0 /\ executed = <<>> /\ callbacks = <<>>
    /\ preFail = "none" /\ container = "none" /\ started = FALSE
    /\ teardownCalls = 0 /\ deferred = FALSE /\ sandboxTables = {}
    /\ compareRan = FALSE /\ extracted = <<>>

NextValidate ==
    \/ Cancel
    \/ CheckDocker
    \/ CreateContainer
    \/ BeginWait
    \/ WaitForMySQL
    \/ ImportBatch
    \/ ImportRoutines
    \/ ExecuteStatement
    \/ CompareSchemaStep
    \/ Finish

SpecValidate == InitValidate /\ [][NextValidate]_vars


-----------------------------------------------------------------------------
(* internal/docker: Validator.QuickValidate *)

MaxQuickLen == 3

\* strings.ToUpper(s)
ToUpper(cs) ==
    [i \in 1..Len(cs) |->
        IF cs[i] \in Range(Lower)
        THEN Upper[CHOOSE k \in 1..26 : Lower[k] = cs[i]]
        ELSE cs[i]]

\* strings.TrimSpace(s); the blank of the model's texts is the space
RECURSIVE TrimSpace(_)
TrimSpace(cs) ==
    IF cs = <<>> THEN cs
    ELSE IF Head(cs) = " " THEN TrimSpace(Tail(cs))
    ELSE IF cs[Len(cs)] = " " THEN TrimSpace(SubSeq(cs, 1, Len(cs) - 1))
    ELSE cs

\* the rendered texts of the statements handed to QuickValidate, character by
\* character: empty, a lone terminator, blanks, DROP TABLE with and without IF
\* EXISTS, TRUNCATE without terminator, a padded SELECT, a DELETE without
\* terminator
QuickSQLs ==
    { <<>>,
      <<";">>,
      <<" ", " ">>,
      <<"d","r","o","p"," ","t","a","b","l","e"," ","t",";">>,
      <<"D","R","O","P"," ","T","A","B","L","E"," ","I","F"," ","E","X","I","S","T","S",
        " ","t",";">>,
      <<"t","r","u","n","c","a","t","e"," ","t">>,
      <<" ","S","E","L","E","C","T"," ","1",";"," ">>,
      <<"D","E","L","E","T","E"," ","F","R","O","M"," ","t">> }

\* a check that finds nothing
quickWarningsNone(text, i) == <<>>

\* the warnings QuickValidate appends for statement i (counted from 0)
quickWarnings(text, i) ==
    Let(TrimSpace(text), LAMBDA sql :
        IF sql = <<>> \/ sql = <<";">>
        THEN <<<<"statement %d is empty", i + 1>>>>
        ELSE Let(ToUpper(sql), LAMBDA upperSQL :
                (IF sql[Len(sql)] # ";"
                 THEN <<<<"statement %d lacks the semicolon", i + 1>>>> ELSE <<>>)
             \o (IF /\ Contains(upperSQL, <<"D","R","O","P"," ","T","A","B","L","E">>)
                    /\ ~Contains(upperSQL, <<"I","F"," ","E","X","I","S","T","S">>)
                 THEN <<<<"statement %d: DROP TABLE should use IF EXISTS", i + 1>>>>
                 ELSE <<>>)
             \o (IF Contains(upperSQL, <<"T","R","U","N","C","A","T","E">>)
                 THEN <<<<"statement %d: holds a TRUNCATE", i + 1>>>> ELSE <<>>)))

InitQuick ==
    /\ \E n \in 0..MaxQuickLen : \E texts \in [1..n -> QuickSQLs] :
          script = [i \in 1..n |->
                      SQLStatement(texts[i], "TABLE", <<"t">>, "ALTER", SeverityInfo)]
    /\ source = SchemaOf({}, <<{}, {}, {}, {}>>)
    /\ target = SchemaOf({}, <<{}, {}, {}, {}>>)
    /\ rules = NoRules
    /\ stage = "generated"
    /\ schemaDiff = EmptyDiff
    /\ scriptWarnings = <<>>
    /\ assessment = NilPtr
    /\ AuxIdle
    /\ ValidatorIdle

\* v.QuickValidate(ctx, script)
QuickValidate ==
    /\ pc = "idle"
    /\ result' = [Success |-> TRUE, ExecutionLog |-> <<>>, Errors |-> <<>>,
                  Warnings |-> ConcatMap(LAMBDA i : quickWarnings(script[i].SQL, i - 1),
                                         [i \in 1..Len(script) |-> i]),
                  SchemaMatch |-> FALSE, SchemaDiffs |-> <<>>, ContainerLogs |-> FALSE]
    /\ retErr' = "nil"
    /\ pc' = "quick_done"
    /\ UNCHANGED <<pipeVars, opts, ctxDone, cancelledAt, currentStep, totalSteps,
                   successCount, failCount, stmtIdx, polls, executed, callbacks, preFail,
                   container, started, teardownCalls, deferred, sandboxTables,
                   compareRan, extracted>>

\* the caller cancels its context; QuickValidate never looks at it
CancelQuick ==
    /\ pc = "idle" /\ ~ctxDone
    /\ ctxDone' = TRUE
    /\ UNCHANGED <<pipeVars, pc, opts, cancelledAt, result, retErr, currentStep, totalSteps,
                   successCount, failCount, stmtIdx, polls, executed, callbacks, preFail,
                   container, started, teardownCalls, deferred, sandboxTables,
                   compareRan, extracted>>

NextQuick == QuickValidate \/ CancelQuick

SpecQuick == InitQuick /\ [][NextQuick]_vars

-----------------------------------------------------------------------------
(* internal/config: the Store, used by the window and by its compare goroutine *)

MaxRounds == 2

Project(id, ignoreComments) == [ID |-> id, IgnoreComments |-> ignoreComments]

\* the config records a Store holds once NewStore and loadConfig have run
StoredConfigs ==
    {[Projects |-> <<Project("default", TRUE)>>, ActiveProject |-> "default"],
     [Projects |-> <<Project("a", FALSE), Project("b", TRUE)>>, ActiveProject |-> ""],
     [Projects |-> <<Project("a", TRUE), Project("b", FALSE)>>, ActiveProject |-> "b"]}

\* GetActiveProject: the slot of Projects the returned pointer points at, 0 for nil
activeProject(cfg) ==
    IF cfg.ActiveProject = "" /\ Len(cfg.Projects) > 0 THEN 1
    ELSE IF \E i \in 1..Len(cfg.Projects) : cfg.Projects[i].ID = cfg.ActiveProject
         THEN CHOOSE i \in 1..Len(cfg.Projects) :
                 /\ cfg.Projects[i].ID = cfg.ActiveProject
                 /\ \A j \in 1..(i - 1) : cfg.Projects[j].ID # cfg.ActiveProject
         ELSE 0

\* UpdateProject: the first project of that ID is overwritten in place
updateProject(projects, project) ==
    [i \in 1..Len(projects) |->
        IF projects[i].ID = project.ID /\ \A j \in 1..(i - 1) : projects[j].ID # project.ID
        THEN project ELSE projects[i]]

CallerIdle == [pc |-> "idle", ptr |-> 0, snapshot |-> NilPtr, local |-> NilPtr, rounds |-> 0]

InitStore ==
    /\ \E cfg \in StoredConfigs :
          store = [Projects |-> cfg.Projects, ActiveProject |-> cfg.ActiveProject,
                   writer |-> FALSE, readers |-> 0]
    /\ callers = [p \in {"ui", "cmp"} |-> CallerIdle]
    /\ bareAccess = {}
    /\ catalog = SchemaOf({}, <<{}, {}, {}, {}>>)
    /\ failing = {}
    /\ extraction = NilPtr
    /\ mw = NewMainWindow
    /\ source = SchemaOf({}, <<{}, {}, {}, {}>>)
    /\ target = SchemaOf({}, <<{}, {}, {}, {}>>)
    /\ rules = NoRules
    /\ stage = "extracted"
    /\ schemaDiff = EmptyDiff
    /\ script = <<>>
    /\ scriptWarnings = <<>>
    /\ assessment = NilPtr
    /\ ValidatorIdle

StoreUnchanged == UNCHANGED <<source, target, rules, stage, schemaDiff, script,
                              scriptWarnings, assessment, catalog, failing, extraction,
                              mw, valVars>>

\* GetActiveProject up to s.mu.RLock(), called by saveConfig on the UI goroutine
\* and by the goroutine of onCompare
GetActiveProjectRLock(p) ==
    /\ callers[p].pc = "idle" /\ callers[p].rounds < MaxRounds
    /\ ~store.writer
    /\ store' = [store EXCEPT !.readers = @ + 1]
    /\ callers' = [callers EXCEPT ![p].pc = "rlocked", ![p].rounds = @ + 1]
    /\ UNCHANGED bareAccess
    /\ StoreUnchanged

\* the rest of GetActiveProject: the pointer into Projects is returned and the
\* deferred RUnlock runs
GetActiveProjectReturn(p) ==
    /\ callers[p].pc = "rlocked"
    /\ store' = [store EXCEPT !.readers = @ - 1]
    /\ \E i \in {activeProject(store)} :
          callers' = [callers EXCEPT ![p].pc = "holds", ![p].ptr = i,
                         ![p].snapshot = IF i = 0 THEN NilPtr ELSE Ptr(store.Projects[i])]
    /\ UNCHANGED bareAccess
    /\ StoreUnchanged

\* saveConfig: project.Environments and project.IgnoreRules are assigned through
\* the pointer (a fresh Project when it is nil), then *project is copied for the call
SaveConfigEdit ==
    /\ callers["ui"].pc = "holds"
    /\ \E checked \in BOOLEAN :
          IF callers["ui"].ptr = 0
          THEN /\ callers' = [callers EXCEPT !["ui"].pc = "update",
                                 !["ui"].local = Ptr(Project("default", checked))]
               /\ UNCHANGED <<store, bareAccess>>
          ELSE /\ store' = [store EXCEPT
                               !.Projects[callers["ui"].ptr].IgnoreComments = checked]
               /\ callers' = [callers EXCEPT !["ui"].pc = "update",
                                 !["ui"].local = Ptr(store'.Projects[callers["ui"].ptr])]
               /\ bareAccess' = bareAccess \cup {<<"ui", "write">>, <<"ui", "read">>}
    /\ StoreUnchanged

\* UpdateProject up to s.mu.Lock()
UpdateProjectLock ==
    /\ callers["ui"].pc = "update"
    /\ ~store.writer /\ store.readers = 0
    /\ store' = [store EXCEPT !.writer = TRUE]
    /\ callers' = [callers EXCEPT !["ui"].pc = "locked"]
    /\ UNCHANGED bareAccess
    /\ StoreUnchanged

\* the loop of UpdateProject and s.mu.Unlock()
UpdateProjectUnlock ==
    /\ callers["ui"].pc = "locked"
    /\ store' = [store EXCEPT !.Projects = updateProject(@, Deref(callers["ui"].local)),
                              !.writer = FALSE]
    /\ callers' = [callers EXCEPT !["ui"].pc = "save"]
    /\ UNCHANGED bareAccess
    /\ StoreUnchanged

\* s.Save(): the record is marshalled between Lock and Unlock; saveConfig returns
\* and drops its pointer
StoreSave ==
    /\ callers["ui"].pc = "save"
    /\ ~store.writer /\ store.readers = 0
    /\ callers' = [callers EXCEPT !["ui"] = [CallerIdle EXCEPT !.rounds = callers["ui"].rounds]]
    /\ UNCHANGED <<store, bareAccess>>
    /\ StoreUnchanged

\* onCompare: ignoreRules = project.IgnoreRules, read through the pointer
CompareReadRules ==
    /\ callers["cmp"].pc = "holds"
    /\ IF callers["cmp"].ptr = 0
       THEN /\ callers' = [callers EXCEPT !["cmp"].pc = "idle", !["cmp"].snapshot = NilPtr]
            /\ UNCHANGED bareAccess
       ELSE /\ callers' = [callers EXCEPT !["cmp"].pc = "idle", !["cmp"].ptr = 0,
                              !["cmp"].snapshot = NilPtr,
                              !["cmp"].local = Ptr(store.Projects[callers["cmp"].ptr])]
            /\ bareAccess' = bareAccess \cup {<<"cmp", "read">>}
    /\ UNCHANGED store
    /\ StoreUnchanged

NextStore ==
    \/ \E p \in {"ui", "cmp"} : GetActiveProjectRLock(p)
    \/ \E p \in {"ui", "cmp"} : GetActiveProjectReturn(p)
    \/ SaveConfigEdit
    \/ UpdateProjectLock
    \/ UpdateProjectUnlock
    \/ StoreSave
    \/ CompareReadRules

SpecStore == InitStore /\ [][NextStore]_vars

-----------------------------------------------------------------------------
(* Claims about the Store, checked under SpecStore *)

\* C24: under every interleaving the config record is read holding the shared
\* lock and written holding the exclusive lock, and what a read handed out is an
\* immutable snapshot: the holder keeps seeing the value it was given, whatever
\* is written later, and cannot change the stored record through it.
C24_LockedAccessAndSnapshots ==
    /\ bareAccess = {}
    /\ \A p \in DOMAIN callers :
          (callers[p].pc = "holds" /\ callers[p].ptr # 0)
              => store.Projects[callers[p].ptr] = Deref(callers[p].snapshot)

-----------------------------------------------------------------------------
(* extractor: MySQLExtractor.ExtractSchema against a database whose queries may fail *)

MaxFailures == 2

\* the catalog queries of one extraction
QueryKinds ==
    {"SCHEMATA", "TABLES", "COLUMNS", "STATISTICS", "KEY_COLUMN_USAGE", "SHOW CREATE TABLE",
     "VIEWS", "ROUTINES PROCEDURE", "SHOW CREATE PROCEDURE", "PARAMETERS PROCEDURE",
     "ROUTINES FUNCTION", "SHOW CREATE FUNCTION", "PARAMETERS FUNCTION", "TRIGGERS"}

Catalogs ==
    {SchemaOf({Orders1, TmpLog1}, <<{View1}, {Proc1}, {Func1}, {Trig1}>>),
     SchemaOf({Orders3}, <<{}, {Proc2}, {}, {}>>),
     SchemaOf({}, <<{View2}, {}, {Func2}, {}>>)}

\* ExtractTables: <<>> when a query fails whose error it returns
ExtractTables(db, fails) ==
    IF "TABLES" \in fails THEN NilPtr
    ELSE IF DOMAIN db.Tables # {} /\ {"COLUMNS", "STATISTICS", "KEY_COLUMN_USAGE"} \cap fails # {}
         THEN NilPtr
         ELSE Ptr([n \in DOMAIN db.Tables |->
                      IF "SHOW CREATE TABLE" \in fails
                      THEN [db.Tables[n] EXCEPT !.CreateSQL = <<>>]
                      ELSE db.Tables[n]])

ExtractViews(db, fails) == IF "VIEWS" \in fails THEN NilPtr ELSE Ptr(db.Views)

ExtractProcedures(db, fails) ==
    IF "ROUTINES PROCEDURE" \in fails THEN NilPtr
    ELSE Ptr([n \in DOMAIN db.Procedures |->
                 IF "SHOW CREATE PROCEDURE" \in fails
                 THEN [db.Procedures[n] EXCEPT !.Definition = ""]
                 ELSE db.Procedures[n]])

ExtractFunctions(db, fails) ==
    IF "ROUTINES FUNCTION" \in fails THEN NilPtr
    ELSE Ptr([n \in DOMAIN db.Functions |->
                 IF "SHOW CREATE FUNCTION" \in fails
                 THEN [db.Functions[n] EXCEPT !.Definition = ""]
                 ELSE db.Functions[n]])

ExtractTriggers(db, fails) == IF "TRIGGERS" \in fails THEN NilPtr ELSE Ptr(db.Triggers)

\* the routines whose Params were filled
extractRoutineParams(db, fails) ==
       (IF "PARAMETERS PROCEDURE" \in fails THEN {} ELSE DOMAIN db.Procedures)
    \cup (IF "PARAMETERS FUNCTION" \in fails THEN {} ELSE DOMAIN db.Functions)

ExtractFailure(class) == [schema |-> NilPtr, charset |-> "", params |-> {}, err |-> class]

\* ExtractSchema with DefaultExtractOptions: every class is included
ExtractSchema(db, fails) ==
    Let(ExtractTables(db, fails), LAMBDA tables :
    Let(ExtractViews(db, fails), LAMBDA views :
    Let(ExtractProcedures(db, fails), LAMBDA procedures :
    Let(ExtractFunctions(db, fails), LAMBDA functions :
    Let(ExtractTriggers(db, fails), LAMBDA triggers :
        IF IsNil(tables) THEN ExtractFailure("tables")
        ELSE IF IsNil(views) THEN ExtractFailure("views")
        ELSE IF IsNil(procedures) THEN ExtractFailure("procedures")
        ELSE IF IsNil(functions) THEN ExtractFailure("functions")
        ELSE IF IsNil(triggers) THEN ExtractFailure("triggers")
        ELSE [schema  |-> Ptr([Tables |-> Deref(tables), Views |-> Deref(views),
                               Procedures |-> Deref(procedures),
                               Functions |-> Deref(functions),
                               Triggers |-> Deref(triggers)]),
              charset |-> IF "SCHEMATA" \in fails THEN "" ELSE "utf8mb4",
              params  |-> extractRoutineParams(db, fails),
              err     |-> "nil"])))))

InitExtract ==
    /\ catalog \in Catalogs
    /\ failing \in {f \in SUBSET QueryKinds : Cardinality(f) <= MaxFailures}
    /\ extraction = NilPtr
    /\ mw = NewMainWindow
    /\ store = [Projects |-> <<>>, ActiveProject |-> "", writer |-> FALSE, readers |-> 0]
    /\ callers = <<>>
    /\ bareAccess = {}
    /\ source = SchemaOf({}, <<{}, {}, {}, {}>>)
    /\ target = SchemaOf({}, <<{}, {}, {}, {}>>)
    /\ rules = NoRules
    /\ stage = "connected"
    /\ schemaDiff = EmptyDiff
    /\ script = <<>>
    /\ scriptWarnings = <<>>
    /\ assessment = NilPtr
    /\ ValidatorIdle

\* sourceExtractor.ExtractSchema(ctx, DefaultExtractOptions()); the schema is kept
\* when the call returns no error
DoExtract ==
    /\ stage = "connected"
    /\ \E out \in {ExtractSchema(catalog, failing)} :
          /\ extraction' = Ptr(out)
          /\ IF out.err = "nil"
             THEN source' = Deref(out.schema) /\ stage' = "extracted"
             ELSE source' = source /\ stage' = "failed"
    /\ UNCHANGED <<target, rules, schemaDiff, script, scriptWarnings, assessment,
                   store, callers, bareAccess, catalog, failing, mw, valVars>>

NextExtract == DoExtract

SpecExtract == InitExtract /\ [][NextExtract]_vars

-----------------------------------------------------------------------------
(* internal/gui/window.go: the compare, generate and validate handlers *)

\* what the two environments may hold when a comparison extracts them
WindowSchemas ==
    {SchemaOf({Orders1}, <<{}, {}, {}, {}>>),
     SchemaOf({Orders1, TmpLog1}, <<{}, {}, {}, {}>>)}

InitWindow ==
    /\ mw = NewMainWindow
    /\ rules \in {NoRules, TableRules}
    /\ source = SchemaOf({}, <<{}, {}, {}, {}>>)
    /\ target = SchemaOf({}, <<{}, {}, {}, {}>>)
    /\ stage = "connected"
    /\ schemaDiff = EmptyDiff
    /\ script = <<>>
    /\ scriptWarnings = <<>>
    /\ assessment = NilPtr
    /\ store = [Projects |-> <<>>, ActiveProject |-> "", writer |-> FALSE, readers |-> 0]
    /\ callers = <<>>
    /\ bareAccess = {}
    /\ catalog = SchemaOf({}, <<{}, {}, {}, {}>>)
    /\ failing = {}
    /\ extraction = NilPtr
    /\ ValidatorIdle

WindowUnchanged ==
    UNCHANGED <<source, target, rules, stage, schemaDiff, script, scriptWarnings,
                assessment, store, callers, bareAccess, catalog, failing, extraction,
                valVars>>

\* onCompare up to the start of its goroutine
onCompare ==
    /\ mw.compareBtn
    /\ mw' = [mw EXCEPT !.compareBtn = FALSE, !.comparing = "started"]
    /\ WindowUnchanged

\* the goroutine of onCompare fails: before the source schema is extracted, or
\* after it while connecting to or extracting the target
onCompareFails ==
    /\ mw.comparing \in {"started", "source"}
    /\ mw' = [mw EXCEPT !.compareBtn = TRUE, !.comparing = "no"]
    /\ WindowUnchanged

\* the goroutine extracts the source schema and assigns mw.sourceSchema
onCompareSource ==
    /\ mw.comparing = "started"
    /\ \E s \in WindowSchemas :
          mw' = [mw EXCEPT !.sourceSchema = Ptr(s), !.comparing = "source"]
    /\ WindowUnchanged

\* the goroutine extracts the target schema, assigns mw.targetSchema, compares
\* and enables the buttons
onCompareTarget ==
    /\ mw.comparing = "source"
    /\ \E t \in WindowSchemas, it \in Iterations :
          \E d \in {Compare(rules, Deref(mw.sourceSchema), t, it)} :
              mw' = [mw EXCEPT !.targetSchema = Ptr(t),
                               !.schemaDiff = Ptr(d),
                               !.generateBtn = (@ \/ HasDiff(d)),
                               !.compareBtn = TRUE,
                               !.comparing = "no"]
    /\ WindowUnchanged

onGenerate ==
    /\ mw.generateBtn
    /\ ~IsNil(mw.schemaDiff)
    /\ \E rev \in BOOLEAN :
          mw' = [mw EXCEPT !.script = Ptr(Generate(Deref(mw.schemaDiff), rev).Statements),
                           !.validateBtn = TRUE]
    /\ WindowUnchanged

\* onValidate: the run is handed the held source, target and script
onValidate ==
    /\ mw.validateBtn
    /\ ~IsNil(mw.script) /\ ~IsNil(mw.targetSchema)
    /\ mw' = [mw EXCEPT !.validating =
                 Ptr([source |-> mw.sourceSchema, target |-> mw.targetSchema,
                      script |-> mw.script])]
    /\ WindowUnchanged

NextWindow ==
    \/ onCompare \/ onCompareFails \/ onCompareSource \/ onCompareTarget
    \/ onGenerate \/ onValidate

SpecWindow == InitWindow /\ [][NextWindow]_vars

-----------------------------------------------------------------------------
(* Claims about the main window, checked under SpecWindow *)

canValidate == mw.validateBtn /\ ~IsNil(mw.script) /\ ~IsNil(mw.targetSchema)

diffIsOfHeldSchemas ==
    /\ ~IsNil(mw.sourceSchema) /\ ~IsNil(mw.schemaDiff)
    /\ \E it \in Iterations :
          Deref(mw.schemaDiff)
              = Compare(rules, Deref(mw.sourceSchema), Deref(mw.targetSchema), it)

scriptIsOfHeldDiff ==
    /\ ~IsNil(mw.schemaDiff)
    /\ \E rev \in BOOLEAN :
          Deref(mw.script) = Generate(Deref(mw.schemaDiff), rev).Statements

\* C27: whenever a validation can be started, the held diff was computed from
\* the held source and target schemas and the held script was generated from
\* the held diff; so does every validation that was started.
C27_HeldArtifactsConsistent ==
    /\ canValidate => diffIsOfHeldSchemas /\ scriptIsOfHeldDiff
    /\ \A v \in Range(mw.validating) :
          \E it \in Iterations, rev \in BOOLEAN :
              v.script = Ptr(Generate(Compare(rules, Deref(v.source), Deref(v.target), it),
                                      rev).Statements)

-----------------------------------------------------------------------------
(* Claims about the extractor, checked under SpecExtract *)

\* the queries ExtractSchema issues against a database before any fails
issuedQueries(db) ==
    {"SCHEMATA", "TABLES", "VIEWS", "ROUTINES PROCEDURE", "ROUTINES FUNCTION", "TRIGGERS"}
    \cup (IF DOMAIN db.Tables # {}
          THEN {"COLUMNS", "STATISTICS", "KEY_COLUMN_USAGE", "SHOW CREATE TABLE"} ELSE {})
    \cup (IF DOMAIN db.Procedures # {}
          THEN {"SHOW CREATE PROCEDURE", "PARAMETERS PROCEDURE"} ELSE {})
    \cup (IF DOMAIN db.Functions # {}
          THEN {"SHOW CREATE FUNCTION", "PARAMETERS FUNCTION"} ELSE {})

\* C25: when a catalog query of the extraction fails, ExtractSchema returns an
\* error that names an object class and no schema; without a failing query it
\* returns the schema of the database.
C25_ExtractionFailsFast ==
    extraction # NilPtr =>
        IF failing \cap issuedQueries(catalog) # {}
        THEN /\ extraction[1].schema = NilPtr
             /\ extraction[1].err \in {"tables", "views", "procedures", "functions", "triggers"}
        ELSE /\ extraction[1].err = "nil"
             /\ extraction[1].schema = Ptr(catalog)

-----------------------------------------------------------------------------
(* Claims about Validator.QuickValidate, checked under SpecQuick *)

\* the texts of QuickSQLs with nothing to report
cleanSQLs ==
    { <<"D","R","O","P"," ","T","A","B","L","E"," ","I","F"," ","E","X","I","S","T","S",
        " ","t",";">>,
      <<" ","S","E","L","E","C","T"," ","1",";"," ">> }

\* the statement numbers the warnings name
warnedStatements == {result.Warnings[k][2] : k \in 1..Len(result.Warnings)}

\* C23: for every script QuickValidate returns Success = true and a nil error,
\* reports its findings as warnings only, with Errors left empty, and touches
\* neither container nor sandbox.
C23_QuickValidateNeverFails ==
    pc = "quick_done" =>
        /\ result.Success /\ retErr = "nil"
        /\ result.Errors = <<>>
        /\ warnedStatements = {i \in 1..Len(script) : script[i].SQL \notin cleanSQLs}
        /\ container = "none" /\ ~started /\ teardownCalls = 0
        /\ sandboxTables = {} /\ executed = <<>> /\ polls = 0 /\ callbacks = <<>>

\* a script of an empty statement, a DROP TABLE without IF EXISTS and a
\* TRUNCATE without terminator, checked after the context was cancelled
C23_Witness ==
    /\ pc = "quick_done" /\ ctxDone
    /\ Len(script) = 3
    /\ script[1].SQL = <<>>
    /\ script[2].SQL = <<"d","r","o","p"," ","t","a","b","l","e"," ","t",";">>
    /\ script[3].SQL = <<"t","r","u","n","c","a","t","e"," ","t">>
    /\ Len(result.Warnings) = 4
    /\ result.Success

-----------------------------------------------------------------------------
(* Claims about Validator.Validate, checked under SpecValidate *)

\* the log entries of the replayed statements (the other steps log no SQL)
statementLog == SelectSeq(result.ExecutionLog, LAMBDA e : e.SQL # <<>>)

failedStatements == {i \in 1..Len(executed) : ~executed[i].Success}

\* Validate has returned after the replay loop
returnedAfterReplay == pc = "done" /\ retErr = "nil"

\* the step and the total of every progress callback and of every entry of the
\* execution log, each list in the order it was written
stepRange(seq) ==
    \A i \in 1..Len(seq) :
        /\ 1 <= seq[i].Step /\ seq[i].Step <= seq[i].Total
        /\ seq[i].Total = seq[1].Total
        /\ i > 1 => seq[i - 1].Step <= seq[i].Step

\* C28: in every progress callback and in every entry of the execution log of
\* a run, 1 <= step <= total, the total is the same throughout the run and the
\* step never decreases.
C28_StepWithinTotal ==
    stepRange(callbacks) /\ stepRange(result.ExecutionLog)

\* C2: the replay hands every statement of the script to the sandbox exactly once
\* and in list order; each failure adds one entry to Errors, one failed log entry
\* and one to the fail counter, and the loop goes on; when Validate returns after
\* the replay, Success is true exactly when no statement failed.
C2_ReplayEveryStatementInOrder ==
    /\ Len(executed) = stmtIdx
    /\ \A i \in 1..Len(executed) : executed[i].Stmt = i
    /\ Len(statementLog) = stmtIdx
    /\ \A i \in 1..Len(statementLog) :
          /\ statementLog[i].SQL = script[i].SQL
          /\ statementLog[i].Success = executed[i].Success
    /\ failCount = Cardinality(failedStatements)
    /\ successCount + failCount = stmtIdx
    /\ stmtIdx > 0 => Len(result.Errors) = failCount
    /\ (pc \in {"compare", "finish"} \/ returnedAfterReplay) => stmtIdx = Len(script)
    /\ returnedAfterReplay => (result.Success <=> failedStatements = {})

C2_Witness ==
    /\ returnedAfterReplay
    /\ Len(script) >= 2
    /\ ~executed[1].Success /\ executed[2].Success
    /\ ~result.Success
    /\ ~ctxDone

\* C3: a run that started a container has, on return, stopped and removed it
\* when Cleanup is set, and has never stopped or removed it when Cleanup is not.
C3_TeardownFollowsCleanup ==
    (pc = "done" /\ started) =>
        IF opts.Cleanup
        THEN container = "removed"
        ELSE container = "running" /\ teardownCalls = 0

\* C4: after a cancellation during the replay no later statement is executed or
\* counted, teardown is initiated, the result holds the log up to that point,
\* and Validate reports the cancellation to its caller.
C4_CancelAbortsReplay ==
    (pc = "done" /\ cancelledAt >= 0) =>
        /\ Len(executed) = cancelledAt
        /\ successCount + failCount = cancelledAt
        /\ Len(statementLog) = cancelledAt
        /\ opts.Cleanup => teardownCalls >= 1
        /\ retErr = "context canceled"

\* the number of the step at which a run fails before the replay
preReplayStep(step) ==
    CASE step = "docker" -> 1 [] step = "create" -> 2 [] step = "wait" -> 3
      [] step = "import" -> 4

\* C5: Validate returns an error exactly when a step before the replay failed;
\* then no statement has been executed, no later step has begun (a failed host
\* check starts no container), Success is false and Errors holds the failure.
\* Once the replay has begun, Validate returns no error.
C5_HardErrorIffPreReplayFailure ==
    /\ pc = "done" =>
          /\ retErr # "nil" <=> preFail # "none"
          /\ preFail # "none" =>
                /\ executed = <<>> /\ stmtIdx = 0 /\ statementLog = <<>>
                /\ ~result.Success
                /\ Len(result.Errors) = 1
                /\ ~result.ExecutionLog[Len(result.ExecutionLog)].Success
                /\ currentStep = preReplayStep(preFail)
                /\ Len(callbacks) = currentStep
                /\ ~compareRan
                /\ preFail = "docker" => (~started /\ container = "none")
                /\ preFail \in {"docker", "create"} => (polls = 0 /\ sandboxTables = {})
    /\ stmtIdx > 0 => retErr = "nil"
    /\ pc # "done" => retErr = "nil"

C5_Witness ==
    /\ pc = "done"
    /\ preFail = "import"
    /\ retErr = "import failed"
    /\ Len(script) > 0
    /\ ~ctxDone

\* C6: in a run that gets to the end of the replay, the convergence check runs
\* exactly when CompareSchema is set and no statement failed; SchemaMatch is true
\* exactly when the check ran, read the sandbox schema, found every table name
\* of the source in it and found the two table counts equal; SchemaMatch implies
\* Success; a mismatch adds a warning and the differences and leaves Success to
\* the fail counter.
C6_ConvergenceCheck ==
    /\ ~compareRan => (~result.SchemaMatch /\ result.SchemaDiffs = <<>>
                       /\ result.Warnings = <<>>)
    /\ returnedAfterReplay =>
          /\ compareRan <=> (opts.CompareSchema /\ failCount = 0)
          /\ result.SchemaMatch <=>
                /\ compareRan
                /\ extracted # <<>>
                /\ DOMAIN source.Tables \subseteq extracted[1]
                /\ Cardinality(extracted[1]) = Cardinality(DOMAIN source.Tables)
          /\ result.SchemaMatch => result.Success
          /\ (compareRan /\ ~result.SchemaMatch) =>
                /\ Len(result.Warnings) = 1
                /\ result.SchemaDiffs # <<>>
          /\ result.SchemaMatch => (result.Warnings = <<>> /\ result.SchemaDiffs = <<>>)
          /\ result.Success <=> (failCount = 0)

C6_Witness ==
    /\ returnedAfterReplay
    /\ compareRan
    /\ extracted # <<>>
    /\ DOMAIN source.Tables \subseteq extracted[1]
    /\ ~result.SchemaMatch
    /\ result.Success

\* C7: when the sandbox starts with the tables of the target and every statement
\* of the script succeeds, every table name of the source names a table of the
\* sandbox after the replay.
C7_RoundTrip ==
    (/\ returnedAfterReplay
     /\ failCount = 0
     /\ importedTables(target) = DOMAIN target.Tables) =>
        DOMAIN source.Tables \subseteq sandboxTables

=============================================================================
